---------------------------- MODULE Spec2Model ----------------------------
(***************************************************************************)
(* A model of gen-orb-mcp: the orb parser (parser/mod.rs, parser/types.rs), *)
(* the code generator (generator/context.rs, generator/mod.rs) and the     *)
(* generate command (lib.rs).                                              *)
(*                                                                         *)
(* The specifications of the module, each leaving the variables of the     *)
(* others untouched:                                                       *)
(*   Spec        - OrbParser::parse on a file tree (layout detection, the  *)
(*                 root document, the three entity directories);           *)
(*   SpecUnion   - serde's untagged-union deserialization of Step,         *)
(*                 RunStep, ExecutorRef and DockerImage from a YAML value; *)
(*   SpecRound   - the unions and MachineConfig parsed, serialized and     *)
(*                 parsed again;                                           *)
(*   SpecGen     - generate over names and parameters;                     *)
(*   SpecCtx     - generate over the shapes of a definition;               *)
(*   SpecFromOrb - GeneratorContext::from_orb on any name;                 *)
(*   SpecConfig  - ExecutorConfigContext::from_config;                     *)
(*   SpecWrite   - GeneratedServer::write_to and format;                   *)
(*   SpecCli     - one run of the generate command;                        *)
(*   SpecTwoRuns - two runs of the generate command started together.      *)
(***************************************************************************)
EXTENDS Integers, Sequences, FiniteSets, TLC

VARIABLES
    \* ---- OrbParser::parse -------------------------------------------------
    path,       \* the path handed to parse: [isDir, fileName]
    doc,        \* state of the document parse will read (the root document
                \* of the unpacked layout, or the packed file itself)
    pc,         \* position inside parse / parse_unpacked
    layout,     \* which parser parse dispatched to: "none", "unpacked", "packed"
    orb,        \* the local `orb` of parse_unpacked
    dirs,       \* what the file system answered for each entity directory
    result,     \* the Result parse returned
    \* ---- union deserialization --------------------------------------------
    uField,     \* which union is deserialized
    uValue,     \* the YAML value handed to the deserializer
    uOut,       \* the outcome: [tried, variant]
    \* ---- generator ----------------------------------------------------------
    gName,      \* the declared orb name (a sequence of characters)
    gParam,     \* a Parameter of the definition
    gPc,        \* position inside the generator
    gOut,       \* what the generator step produced
    gOrb,       \* the entity names of the OrbDefinition handed to generate
    gVersion,   \* the version handed to generate
    gRendered,  \* the templates generate has rendered so far, in order
    gFiles,     \* the local `files` of generate
    gResult,    \* the Result generate returned
    \* ---- GeneratedServer::write_to / format ---------------------------------
    wMode,      \* the method called: "write_to" or "format"
    wOut,       \* output_dir, as path segments
    wFiles,     \* self.files: relative path -> content
    wPc,        \* position inside write_to / format
    wTodo,      \* the paths the running loop has still to visit
    wDisk,      \* the file system: [dirs, files]
    wDisk0,     \* the file system when the method was called
    wLog,       \* the file-system and formatter calls made so far, in order
    wResult,    \* the Result the method returned
    \* ---- Cli::run, generate command ----------------------------------------
    cRun,       \* per run of the command: its arguments, position and locals
    cDisk,      \* the file system the runs share: [dirs, files]
    cDisk0,     \* the file system before the first run started
    \* ---- ExecutorConfigContext::from_config --------------------------------
    eConfig,    \* the execution config as the input document declares it
    eOut,       \* the ExecutorConfigContext built from it
    \* ---- serialize and parse again ------------------------------------------
    uRound      \* the serialized form of the parsed union value, parsed again

parserVars == <<path, doc, pc, layout, orb, dirs, result>>
unionVars  == <<uField, uValue, uOut>>
genVars    == <<gName, gParam, gPc, gOut, gOrb, gVersion, gRendered, gFiles, gResult>>
writeVars  == <<wMode, wOut, wFiles, wPc, wTodo, wDisk, wDisk0, wLog, wResult>>
cliVars    == <<cRun, cDisk, cDisk0>>
configVars == <<eConfig, eOut>>
vars       == <<path, doc, pc, layout, orb, dirs, result,
                uField, uValue, uOut, gName, gParam, gPc, gOut,
                gOrb, gVersion, gRendered, gFiles, gResult,
                wMode, wOut, wFiles, wPc, wTodo, wDisk, wDisk0, wLog, wResult,
                cRun, cDisk, cDisk0, eConfig, eOut, uRound>>

(***************************************************************************)
(* Bounds of the model.                                                    *)
(***************************************************************************)
\* Directory entries in the whole orb tree (over the three entity directories).
MaxEntries == 2
\* Fields of a YAML map handed to a union deserializer.
MaxFields == 2
\* Elements of a YAML sequence handed to a union deserializer.
MaxSeqLen == 2
\* Characters of a declared orb name.
MaxNameLen == 3
\* Entities of one category of the OrbDefinition handed to the generator.
MaxEntities == 2
\* Files of a GeneratedServer handed to write_to / format.
MaxFiles == 3
\* Environment variables of an execution config.
MaxEnv == 2
\* Container images of an execution config.
MaxImages == 2

(***************************************************************************)
(* ======================  PART 1: OrbParser::parse  ===================== *)
(***************************************************************************)

CategorySet == {"commands", "jobs", "executors"}

\* File names met in an entity directory, as <<stem, extension>>.
EntryNames == {<<"a", "yml">>, <<"a", "yaml">>, <<"b", "yml">>, <<"b", "md">>}

EmptyMap == [n \in {} |-> <<>>]

MapInsert(m, k, v) == [n \in DOMAIN m \cup {k} |-> IF n = k THEN v ELSE m[n]]

\* The entity a root document defines inline under name n.
InlineEntity(n) == <<"inline", n>>

\* The entity the file stem.ext of an entity directory parses to.
FileEntity(e) == <<"file", e.stem, e.ext>>

\* Inline maps a root document may carry for one category.
InlineMaps == {EmptyMap, [n \in {"a"} |-> InlineEntity(n)]}

\* OrbDefinition: version and the three entity maps (description, display and
\* orbs are carried in `meta`).
Definitions ==
    [version : {"2.1"}, meta : {"meta"},
     commands : InlineMaps, jobs : InlineMaps, executors : InlineMaps]

\* OrbDefinition::default()
DefaultDef ==
    [version |-> "", meta |-> "", commands |-> EmptyMap, jobs |-> EmptyMap,
     executors |-> EmptyMap]

\* What reading and parsing a document can meet.
DocStates ==
    {[st |-> "absent"], [st |-> "denied"], [st |-> "notutf8"],
     [st |-> "malformed"]}
      \cup {[st |-> "doc", def |-> d] : d \in Definitions}

FileNames == {"@orb.yml", "orb.yml"}
Paths == [isDir : BOOLEAN, fileName : FileNames]

\* The path as a sequence of components.
PathOf(p) == <<"parent", p.fileName>>

\* path.parent().unwrap_or(path)
Parent(p) == <<"parent">>

\* Directory entries: a file stem.ext or a directory of that name, and two
\* entries that fail without a usable name.
EntryKinds == {"dir", "ok", "unreadable", "malformed"}
Entries ==
    {[stem |-> n[1], ext |-> n[2], kind |-> k] : n \in EntryNames, k \in EntryKinds}
      \cup {[stem |-> "", ext |-> "", kind |-> "ioerr"],
            [stem |-> "?", ext |-> "yml", kind |-> "badname"]}

EntryName(e) == <<e.stem, e.ext>>

\* Listings of at most n entries, in the order read_dir yields them; a
\* directory holds each name once.
Listings(n) ==
    UNION {{l \in [1..k -> Entries] :
              \A i, j \in 1..k : i # j => EntryName(l[i]) # EntryName(l[j])}
           : k \in 0..n}

NoDir == [exists |-> FALSE, readable |-> FALSE, entries |-> <<>>]

Ok(d) == [kind |-> "Ok", def |-> d]
NoResult == [kind |-> "none"]

\* The Err a failing parse returns: only the error, the partly built
\* definition is dropped.
ErrPartial(err, p, partial) == Ok(partial)
Err(err, p, partial) == [kind |-> "Err", err |-> err, path |-> p]

\* parse, lines 46-55: the choice of the parser.
DetectFromContent(p, d) ==
    IF p.isDir THEN "unpacked"
    ELSE IF d.st = "doc" /\ p.fileName = "@orb.yml" THEN "unpacked"
    ELSE "packed"
Detect(p, d) ==
    IF p.isDir THEN "unpacked"
    ELSE IF p.fileName = "@orb.yml" THEN "unpacked"
    ELSE "packed"

\* The orb_dir parse hands to parse_unpacked.
OrbDir(p) == IF p.isDir THEN PathOf(p) ELSE Parent(p)

OrbYmlPath(p) == Append(OrbDir(p), "@orb.yml")

DirPath(p, cat) == Append(OrbDir(p), cat)

EntryPath(p, cat, e) == DirPath(p, cat) \o <<e.stem, e.ext>>

\* parse_unpacked, lines 74-85: the error of a failed read of @orb.yml.
RootReadErrorSwapped(d) == IF d.st = "absent" THEN "FileRead" ELSE "MissingFile"
RootReadError(d) == IF d.st = "absent" THEN "MissingFile" ELSE "FileRead"

\* parse_directory, lines 147-185: the loop over the entries, from entry i on.
RECURSIVE parse_directory_from(_, _, _, _, _)
parse_directory_from(p, cat, l, i, items) ==
    IF i > Len(l) THEN [ok |-> TRUE, items |-> items]
    ELSE LET e == l[i] IN
      IF e.kind = "ioerr"
        THEN [ok |-> FALSE, err |-> "DirectoryRead", path |-> DirPath(p, cat)]
      ELSE IF e.kind = "dir"
        THEN parse_directory_from(p, cat, l, i + 1, items)
      ELSE IF e.ext # "yml" /\ e.ext # "yaml"
        THEN parse_directory_from(p, cat, l, i + 1, items)
      ELSE IF e.kind = "badname"
        THEN [ok |-> FALSE, err |-> "InvalidStructure", path |-> EntryPath(p, cat, e)]
      ELSE IF e.kind = "unreadable"
        THEN [ok |-> FALSE, err |-> "FileRead", path |-> EntryPath(p, cat, e)]
      ELSE IF e.kind = "malformed"
        THEN [ok |-> FALSE, err |-> "YamlParse", path |-> EntryPath(p, cat, e)]
      ELSE parse_directory_from(p, cat, l, i + 1,
                                MapInsert(items, e.stem, FileEntity(e)))

\* parse_directory, lines 136-188.
parse_directory(p, cat, d) ==
    IF ~d.readable
      THEN [ok |-> FALSE, err |-> "DirectoryRead", path |-> DirPath(p, cat)]
      ELSE parse_directory_from(p, cat, d.entries, 1, EmptyMap)

\* parse_unpacked, lines 93-109: what a category becomes once its directory
\* has been parsed into items.
MergeCategory(inline, items) ==
    [n \in DOMAIN inline \cup DOMAIN items |->
        IF n \in DOMAIN items THEN items[n] ELSE inline[n]]
KeepInlineWhenEmpty(inline, items) == IF DOMAIN items = {} THEN inline ELSE items
ReplaceCategory(inline, items) == items

\* The assignment, had it built the definition anew around the directory's
\* map.
AssignCategory_rebuilt(def, cat, items) == [DefaultDef EXCEPT ![cat] = items]

\* parse_unpacked, lines 95, 101 and 107: `orb.<category> = ...`, one field
\* of the definition assigned.
AssignCategory(def, cat, items) ==
    [def EXCEPT ![cat] = ReplaceCategory(def[cat], items)]

NextPc(cat) ==
    CASE cat = "commands" -> "jobs"
      [] cat = "jobs" -> "executors"
      [] cat = "executors" -> "finish"

\* Entries the directories seen so far hold.
Used == Len(dirs["commands"].entries) + Len(dirs["jobs"].entries)
          + Len(dirs["executors"].entries)

InitParser ==
    /\ path \in Paths
    /\ doc \in DocStates
    /\ pc = "start"
    /\ layout = "none"
    /\ orb = DefaultDef
    /\ dirs = [c \in CategorySet |-> NoDir]
    /\ result = NoResult

IdleParser ==
    /\ path = [isDir |-> FALSE, fileName |-> "orb.yml"]
    /\ doc = [st |-> "absent"]
    /\ pc = "idle"
    /\ layout = "none"
    /\ orb = DefaultDef
    /\ dirs = [c \in CategorySet |-> NoDir]
    /\ result = NoResult

\* parse, lines 46-55.
Parse ==
    /\ pc = "start"
    /\ layout' = Detect(path, doc)
    /\ pc' = IF layout' = "unpacked" THEN "root" ELSE "packed"
    /\ UNCHANGED <<path, doc, orb, dirs, result>>
    /\ UNCHANGED <<unionVars, genVars, writeVars, cliVars, configVars, uRound>>

\* parse_unpacked, lines 71-91: read and parse @orb.yml.
ReadRoot ==
    /\ pc = "root"
    /\ IF doc.st \in {"absent", "denied", "notutf8"}
         THEN /\ result' = Err(RootReadError(doc), OrbYmlPath(path), orb)
              /\ pc' = "done"
              /\ orb' = orb
       ELSE IF doc.st = "malformed"
         THEN /\ result' = Err("YamlParse", OrbYmlPath(path), orb)
              /\ pc' = "done"
              /\ orb' = orb
       ELSE /\ orb' = doc.def
            /\ pc' = "commands"
            /\ result' = result
    /\ UNCHANGED <<path, doc, layout, dirs>>
    /\ UNCHANGED <<unionVars, genVars, writeVars, cliVars, configVars, uRound>>

\* parse_unpacked, lines 93-109: one entity directory.
ParseDirectory(cat) ==
    /\ pc = cat
    /\ \/ \* the directory does not exist
          /\ dirs' = [dirs EXCEPT ![cat] = NoDir]
          /\ pc' = NextPc(cat)
          /\ UNCHANGED <<orb, result>>
       \/ \E readable \in BOOLEAN :
          \E l \in Listings(IF readable THEN MaxEntries - Used ELSE 0) :
            LET d == [exists |-> TRUE, readable |-> readable, entries |-> l]
                r == parse_directory(path, cat, d)
            IN /\ dirs' = [dirs EXCEPT ![cat] = d]
               /\ IF r.ok
                    THEN /\ orb' = AssignCategory(orb, cat, r.items)
                         /\ pc' = NextPc(cat)
                         /\ result' = result
                    ELSE /\ result' = Err(r.err, r.path, orb)
                         /\ pc' = "done"
                         /\ orb' = orb
    /\ UNCHANGED <<path, doc, layout>>
    /\ UNCHANGED <<unionVars, genVars, writeVars, cliVars, configVars, uRound>>

\* parse_unpacked, line 111.
Finish ==
    /\ pc = "finish"
    /\ result' = Ok(orb)
    /\ pc' = "done"
    /\ UNCHANGED <<path, doc, layout, orb, dirs>>
    /\ UNCHANGED <<unionVars, genVars, writeVars, cliVars, configVars, uRound>>

\* parse_packed and parse_packed_content, lines 115-133.
ParsePacked ==
    /\ pc = "packed"
    /\ result' = IF doc.st \in {"absent", "denied", "notutf8"}
                   THEN Err("FileRead", PathOf(path), orb)
                 ELSE IF doc.st = "malformed"
                   THEN Err("YamlParse", PathOf(path), orb)
                 ELSE Ok(doc.def)
    /\ pc' = "done"
    /\ UNCHANGED <<path, doc, layout, orb, dirs>>
    /\ UNCHANGED <<unionVars, genVars, writeVars, cliVars, configVars, uRound>>

Next ==
    \/ Parse
    \/ ReadRoot
    \/ ParseDirectory("commands")
    \/ ParseDirectory("jobs")
    \/ ParseDirectory("executors")
    \/ Finish
    \/ ParsePacked


(***************************************************************************)
(* ==========  PART 2: untagged unions of parser/types.rs  =============== *)
(*                                                                         *)
(* serde buffers the value of an untagged enum and tries the variants in   *)
(* declaration order; the first one that deserializes is returned.  A YAML *)
(* value is modelled by its structure: its kind, and for a map the kind of *)
(* each field's value.                                                     *)
(***************************************************************************)

\* Kinds of the value of one field: a string, a non-string scalar, null, a
\* sequence of strings, a sequence holding a non-string scalar.
LeafTags == {"str", "int", "null", "seq", "seq_int"}

\* Field names the generated values use: the required field of every record
\* and one optional field; a name a record does not declare is an unknown
\* field to it.
FieldUniverse ==
    {"command", "name", "key", "path", "root", "at", "condition", "image"}

NoFields == [f \in {} |-> "null"]

PScalar(k) == [k |-> k, items |-> <<>>, m |-> NoFields]
PSeq(items) == [k |-> "seq", items |-> items, m |-> NoFields]
PMap(m) == [k |-> "map", items |-> <<>>, m |-> m]

\* The values below a step key, and the values of the other unions.
Payloads ==
    {PScalar(k) : k \in {"str", "int", "null"}}
      \cup {PSeq(items) : items \in UNION {[1..n -> LeafTags] : n \in 0..MaxSeqLen}}
      \cup {PMap(m) : m \in UNION {[D -> LeafTags] :
                         D \in {S \in SUBSET FieldUniverse : Cardinality(S) <= MaxFields}}}

\* The keys serde matches against StructuredStep's tagged variants
\* (types.rs lines 229-261), in declaration order.
RecognizedKeys ==
    <<"run", "checkout", "restore_cache", "save_cache", "when", "unless",
      "persist_to_workspace", "attach_workspace", "store_test_results",
      "store_artifacts", "add_ssh_keys", "setup_remote_docker">>

RecognizedKeySet == {RecognizedKeys[i] : i \in 1..Len(RecognizedKeys)}

StepKeys == RecognizedKeySet \cup {"my_orb/deploy"}

\* A step value: a scalar, a sequence, an empty map, or a map with the key
\* `key` holding `payload`, and further keys when `more`.
StepScalar(k) == [k |-> k, key |-> "", payload |-> PScalar("null"), more |-> FALSE]
StepMap(key, payload, more) == [k |-> "map", key |-> key, payload |-> payload, more |-> more]

StepValues ==
    {StepScalar(k) : k \in {"str", "int", "null", "seq", "emptymap"}}
      \cup {StepMap(key, p, more) : key \in StepKeys, p \in Payloads, more \in BOOLEAN}

\* Whether a field of Rust type ty deserializes from a value of kind tag.
Accepts(ty, tag) ==
    CASE ty = "String" -> tag = "str"
      [] ty = "OptString" -> tag \in {"str", "null"}
      [] ty = "VecString" -> tag = "seq"
      [] ty = "OptVecString" -> tag \in {"seq", "null"}
      [] ty = "MapStrStr" -> tag = "map"
      [] ty = "OptBool" -> tag \in {"bool", "null"}
      [] ty = "OptAuth" -> tag = "null"
      [] ty = "OptAwsAuth" -> tag \in {"map", "null"}
      [] ty = "VecStep" -> tag = "seq"
      [] ty = "Value" -> TRUE

F(name, ty, req) == [name |-> name, ty |-> ty, req |-> req]

\* The records of types.rs: each field's name, type and whether it is
\* required (neither an Option nor #[serde(default)]).
CheckoutStep == <<F("path", "OptString", FALSE)>>
CacheStep ==
    <<F("key", "OptString", FALSE), F("keys", "OptVecString", FALSE),
      F("name", "OptString", FALSE)>>
SaveCacheStep ==
    <<F("key", "String", TRUE), F("paths", "VecString", FALSE),
      F("name", "OptString", FALSE), F("when", "OptString", FALSE)>>
ConditionalStep == <<F("condition", "Value", TRUE), F("steps", "VecStep", FALSE)>>
WorkspaceStep == <<F("root", "String", TRUE), F("paths", "VecString", FALSE)>>
AttachWorkspaceStep == <<F("at", "String", TRUE)>>
StoreTestResultsStep == <<F("path", "String", TRUE)>>
StoreArtifactsStep == <<F("path", "String", TRUE), F("destination", "OptString", FALSE)>>
AddSshKeysStep == <<F("fingerprints", "VecString", FALSE)>>
SetupRemoteDockerStep ==
    <<F("version", "OptString", FALSE), F("docker_layer_caching", "OptBool", FALSE)>>
RunStepFull ==
    <<F("command", "String", TRUE), F("name", "OptString", FALSE),
      F("working_directory", "OptString", FALSE), F("environment", "MapStrStr", FALSE),
      F("shell", "OptString", FALSE), F("background", "OptBool", FALSE),
      F("no_output_timeout", "OptString", FALSE), F("when", "OptString", FALSE)>>
DockerImageFull ==
    <<F("image", "String", TRUE), F("auth", "OptAuth", FALSE),
      F("aws_auth", "OptAwsAuth", FALSE), F("name", "OptString", FALSE),
      F("entrypoint", "OptVecString", FALSE), F("command", "OptVecString", FALSE),
      F("user", "OptString", FALSE), F("environment", "MapStrStr", FALSE)>>
ExecutorRefWithParams == <<F("name", "String", TRUE)>>

\* A struct visitor that defaulted every field the map leaves out, the
\* required ones too.
StructFromMap_required_defaulted(fields, m) ==
    \A i \in 1..Len(fields) :
        fields[i].name \in DOMAIN m => Accepts(fields[i].ty, m[fields[i].name])

\* A derived struct visitor on a map: required fields present, every known
\* field of its type, unknown fields ignored.
StructFromMap(fields, m) ==
    \A i \in 1..Len(fields) :
        /\ fields[i].req => fields[i].name \in DOMAIN m
        /\ fields[i].name \in DOMAIN m => Accepts(fields[i].ty, m[fields[i].name])

\* A derived struct visitor on a sequence: the fields in order, the missing
\* ones defaulted, no element left over.
StructFromSeq(fields, items) ==
    /\ Len(items) <= Len(fields)
    /\ \A i \in 1..Len(fields) :
          IF i <= Len(items) THEN Accepts(fields[i].ty, items[i]) ELSE ~fields[i].req

\* A struct behind a newtype variant (deserialize_struct): a map or a sequence.
StructValid(fields, p) ==
    \/ p.k = "map" /\ StructFromMap(fields, p.m)
    \/ p.k = "seq" /\ StructFromSeq(fields, p.items)

\* A struct variant of an untagged enum: a map only.
StructVariantValid(fields, p) == p.k = "map" /\ StructFromMap(fields, p.m)

Pending == [tried |-> <<>>, variant |-> "pending"]

\* RunStep (types.rs lines 268-299): Simple(String), then Full {..}.
DeserializeRunStepFullFirst(p) ==
    IF StructVariantValid(RunStepFull, p) THEN [tried |-> <<"Full">>, variant |-> "Full"]
    ELSE IF p.k = "str" THEN [tried |-> <<"Full", "Simple">>, variant |-> "Simple"]
    ELSE [tried |-> <<"Full", "Simple">>, variant |-> "Err"]
DeserializeRunStep(p) ==
    IF p.k = "str" THEN [tried |-> <<"Simple">>, variant |-> "Simple"]
    ELSE IF StructVariantValid(RunStepFull, p)
      THEN [tried |-> <<"Simple", "Full">>, variant |-> "Full"]
    ELSE [tried |-> <<"Simple", "Full">>, variant |-> "Err"]

\* ExecutorRef (types.rs lines 147-160): Name(String), then WithParams {..}.
DeserializeExecutorRef(p) ==
    IF p.k = "str" THEN [tried |-> <<"Name">>, variant |-> "Name"]
    ELSE IF StructVariantValid(ExecutorRefWithParams, p)
      THEN [tried |-> <<"Name", "WithParams">>, variant |-> "WithParams"]
    ELSE [tried |-> <<"Name", "WithParams">>, variant |-> "Err"]

\* DockerImage (types.rs lines 403-410): Simple(String), then Full(Box<..>).
DeserializeDockerImage(p) ==
    IF p.k = "str" THEN [tried |-> <<"Simple">>, variant |-> "Simple"]
    ELSE IF StructValid(DockerImageFull, p)
      THEN [tried |-> <<"Simple", "Full">>, variant |-> "Full"]
    ELSE [tried |-> <<"Simple", "Full">>, variant |-> "Err"]

\* The variant a recognized key names.
VariantOfKey(key) ==
    CASE key = "run" -> "Run"
      [] key = "checkout" -> "Checkout"
      [] key = "restore_cache" -> "RestoreCache"
      [] key = "save_cache" -> "SaveCache"
      [] key = "when" -> "When"
      [] key = "unless" -> "Unless"
      [] key = "persist_to_workspace" -> "PersistToWorkspace"
      [] key = "attach_workspace" -> "AttachWorkspace"
      [] key = "store_test_results" -> "StoreTestResults"
      [] key = "store_artifacts" -> "StoreArtifacts"
      [] key = "add_ssh_keys" -> "AddSshKeys"
      [] key = "setup_remote_docker" -> "SetupRemoteDocker"

\* Whether the content p of the variant named by key deserializes.
VariantContentValid(key, p) ==
    CASE key = "run" -> DeserializeRunStep(p).variant # "Err"
      [] key = "checkout" -> StructValid(CheckoutStep, p)
      [] key = "restore_cache" -> StructValid(CacheStep, p)
      [] key = "save_cache" -> StructValid(SaveCacheStep, p)
      [] key = "when" -> StructValid(ConditionalStep, p)
      [] key = "unless" -> StructValid(ConditionalStep, p)
      [] key = "persist_to_workspace" -> StructValid(WorkspaceStep, p)
      [] key = "attach_workspace" -> StructValid(AttachWorkspaceStep, p)
      [] key = "store_test_results" -> StructValid(StoreTestResultsStep, p)
      [] key = "store_artifacts" -> StructValid(StoreArtifactsStep, p)
      [] key = "add_ssh_keys" -> StructValid(AddSshKeysStep, p)
      [] key = "setup_remote_docker" -> StructValid(SetupRemoteDockerStep, p)

\* The externally tagged variants of StructuredStep: a map with a single
\* key, the key a variant name, the value that variant's content.
TaggedValid(v) ==
    /\ v.k = "map"
    /\ ~v.more
    /\ v.key \in RecognizedKeySet
    /\ VariantContentValid(v.key, v.payload)

\* CommandInvocation(HashMap<String, Value>): any map.
CommandInvocationValid(v) == v.k \in {"map", "emptymap"}

\* Step (types.rs lines 211-218) over StructuredStep (lines 227-265):
\* Simple(String), the tagged variants, the untagged CommandInvocation.
DeserializeStepCatchAllFirst(v) ==
    IF v.k = "str" THEN [tried |-> <<"Simple">>, variant |-> "Simple"]
    ELSE IF CommandInvocationValid(v)
      THEN [tried |-> <<"Simple", "CommandInvocation">>, variant |-> "CommandInvocation"]
    ELSE IF TaggedValid(v)
      THEN [tried |-> <<"Simple", "CommandInvocation", "Tagged">>,
            variant |-> VariantOfKey(v.key)]
    ELSE [tried |-> <<"Simple", "CommandInvocation", "Tagged">>, variant |-> "Err"]
DeserializeStep(v) ==
    IF v.k = "str" THEN [tried |-> <<"Simple">>, variant |-> "Simple"]
    ELSE IF TaggedValid(v)
      THEN [tried |-> <<"Simple", "Tagged">>, variant |-> VariantOfKey(v.key)]
    ELSE IF CommandInvocationValid(v)
      THEN [tried |-> <<"Simple", "Tagged", "CommandInvocation">>,
            variant |-> "CommandInvocation"]
    ELSE [tried |-> <<"Simple", "Tagged", "CommandInvocation">>, variant |-> "Err"]

\* MachineConfig (types.rs lines 462-476): Enabled(bool), then Image {..}.
MachineConfigImage ==
    <<F("image", "String", TRUE), F("docker_layer_caching", "OptBool", FALSE)>>

DeserializeMachineConfig(p) ==
    IF p.k = "bool" THEN [tried |-> <<"Enabled">>, variant |-> "Enabled"]
    ELSE IF StructVariantValid(MachineConfigImage, p)
      THEN [tried |-> <<"Enabled", "Image">>, variant |-> "Image"]
    ELSE [tried |-> <<"Enabled", "Image">>, variant |-> "Err"]

(***************************************************************************)
(* The values the unions deserialize to, and their derived Serialize.      *)
(* A parsed record holds, per declared field, the kind of the value it     *)
(* got, or the kind of the field's default when the document left it out.  *)
(* The derived Serialize of a struct writes every field, a None as null;   *)
(* an untagged enum writes the value of its variant; a tagged variant of   *)
(* StructuredStep writes a one-key map from the variant's serde name to    *)
(* its content, the form the Deserialize of Step reads.                    *)
(***************************************************************************)

\* The kind of the value a field has when the document leaves it out:
\* None for an Option, the empty Vec or HashMap for #[serde(default)].
DefaultTag(ty) ==
    CASE ty \in {"OptString", "OptVecString", "OptBool", "OptAuth", "OptAwsAuth"} -> "null"
      [] ty \in {"VecString", "VecStep"} -> "seq"
      [] ty = "MapStrStr" -> "map"
      [] OTHER -> "missing"

FieldNames(fields) == {fields[i].name : i \in 1..Len(fields)}

FieldIndex(fields, n) == CHOOSE i \in 1..Len(fields) : fields[i].name = n

\* The record a derived struct visitor builds from a map, unknown fields
\* dropped.
StructOfMap(fields, m) ==
    [n \in FieldNames(fields) |->
        IF n \in DOMAIN m THEN m[n] ELSE DefaultTag(fields[FieldIndex(fields, n)].ty)]

\* The record a derived struct visitor builds from a sequence.
StructOfSeq(fields, items) ==
    [n \in FieldNames(fields) |->
        IF FieldIndex(fields, n) <= Len(items)
          THEN items[FieldIndex(fields, n)]
          ELSE DefaultTag(fields[FieldIndex(fields, n)].ty)]

StructOf(fields, p) ==
    IF p.k = "map" THEN StructOfMap(fields, p.m) ELSE StructOfSeq(fields, p.items)

\* derive(Serialize) on a struct: a map with every field.
SerializeStruct(rec) == PMap(rec)

ParseError == [variant |-> "Err", value |-> "none"]

\* RunStep.
ParseRunStepValue(p) ==
    CASE DeserializeRunStep(p).variant = "Simple" -> [variant |-> "Simple", value |-> "str"]
      [] DeserializeRunStep(p).variant = "Full" ->
            [variant |-> "Full", value |-> StructOfMap(RunStepFull, p.m)]
      [] OTHER -> ParseError

SerializeRunStep(x) ==
    IF x.variant = "Simple" THEN PScalar("str") ELSE SerializeStruct(x.value)

\* DockerImage.
ParseDockerImageValue(p) ==
    CASE DeserializeDockerImage(p).variant = "Simple" -> [variant |-> "Simple", value |-> "str"]
      [] DeserializeDockerImage(p).variant = "Full" ->
            [variant |-> "Full", value |-> StructOf(DockerImageFull, p)]
      [] OTHER -> ParseError

SerializeDockerImage(x) ==
    IF x.variant = "Simple" THEN PScalar("str") ELSE SerializeStruct(x.value)

\* ExecutorRef: WithParams keeps `name` and, flattened, every other key.
ParseExecutorRefValue(p) ==
    CASE DeserializeExecutorRef(p).variant = "Name" -> [variant |-> "Name", value |-> "str"]
      [] DeserializeExecutorRef(p).variant = "WithParams" ->
            [variant |-> "WithParams",
             value |-> [name |-> p.m["name"],
                        parameters |-> [n \in DOMAIN p.m \ {"name"} |-> p.m[n]]]]
      [] OTHER -> ParseError

SerializeExecutorRef(x) ==
    IF x.variant = "Name" THEN PScalar("str")
    ELSE PMap(MapInsert(x.value.parameters, "name", x.value.name))

\* MachineConfig.
ParseMachineConfigValue(p) ==
    CASE DeserializeMachineConfig(p).variant = "Enabled" ->
            [variant |-> "Enabled", value |-> "bool"]
      [] DeserializeMachineConfig(p).variant = "Image" ->
            [variant |-> "Image", value |-> StructOfMap(MachineConfigImage, p.m)]
      [] OTHER -> ParseError

SerializeMachineConfig(x) ==
    IF x.variant = "Enabled" THEN PScalar("bool") ELSE SerializeStruct(x.value)

\* The record behind each tagged variant of StructuredStep but Run.
FieldsOfKey(key) ==
    CASE key = "checkout" -> CheckoutStep
      [] key = "restore_cache" -> CacheStep
      [] key = "save_cache" -> SaveCacheStep
      [] key = "when" -> ConditionalStep
      [] key = "unless" -> ConditionalStep
      [] key = "persist_to_workspace" -> WorkspaceStep
      [] key = "attach_workspace" -> AttachWorkspaceStep
      [] key = "store_test_results" -> StoreTestResultsStep
      [] key = "store_artifacts" -> StoreArtifactsStep
      [] key = "add_ssh_keys" -> AddSshKeysStep
      [] key = "setup_remote_docker" -> SetupRemoteDockerStep

\* The name a variant is written under, had the enum no rename attributes.
KeyOfVariant_unrenamed(variant) == variant

\* The name a tagged variant of StructuredStep is written under:
\* rename_all = "snake_case" and the rename attributes (lines 228-261).
KeyOfVariant(variant) ==
    CASE variant = "Run" -> "run"
      [] variant = "Checkout" -> "checkout"
      [] variant = "RestoreCache" -> "restore_cache"
      [] variant = "SaveCache" -> "save_cache"
      [] variant = "When" -> "when"
      [] variant = "Unless" -> "unless"
      [] variant = "PersistToWorkspace" -> "persist_to_workspace"
      [] variant = "AttachWorkspace" -> "attach_workspace"
      [] variant = "StoreTestResults" -> "store_test_results"
      [] variant = "StoreArtifacts" -> "store_artifacts"
      [] variant = "AddSshKeys" -> "add_ssh_keys"
      [] variant = "SetupRemoteDocker" -> "setup_remote_docker"

\* Step over StructuredStep.
ParseStepValue(v) ==
    CASE DeserializeStep(v).variant = "Simple" -> [variant |-> "Simple", value |-> "str"]
      [] DeserializeStep(v).variant = "CommandInvocation" ->
            [variant |-> "CommandInvocation", value |-> v]
      [] DeserializeStep(v).variant = "Err" -> ParseError
      [] OTHER ->
            [variant |-> DeserializeStep(v).variant,
             value |-> IF v.key = "run" THEN ParseRunStepValue(v.payload)
                       ELSE StructOf(FieldsOfKey(v.key), v.payload)]

SerializeStep(x) ==
    CASE x.variant = "Simple" -> StepScalar("str")
      [] x.variant = "CommandInvocation" -> x.value
      [] x.variant = "Run" -> StepMap(KeyOfVariant(x.variant), SerializeRunStep(x.value), FALSE)
      [] OTHER -> StepMap(KeyOfVariant(x.variant), SerializeStruct(x.value), FALSE)

ParseValue(field, v) ==
    CASE field = "step" -> ParseStepValue(v)
      [] field = "run" -> ParseRunStepValue(v)
      [] field = "executor" -> ParseExecutorRefValue(v)
      [] field = "image" -> ParseDockerImageValue(v)
      [] field = "machine" -> ParseMachineConfigValue(v)

SerializeValue(field, x) ==
    CASE field = "step" -> SerializeStep(x)
      [] field = "run" -> SerializeRunStep(x)
      [] field = "executor" -> SerializeExecutorRef(x)
      [] field = "image" -> SerializeDockerImage(x)
      [] field = "machine" -> SerializeMachineConfig(x)

InitUnion ==
    /\ uField \in {"step", "run", "executor", "image"}
    /\ uValue \in IF uField = "step" THEN StepValues ELSE Payloads
    /\ uOut = Pending
    /\ uRound = [kind |-> "none"]

ParseStep ==
    /\ uField = "step" /\ uOut = Pending
    /\ uOut' = DeserializeStep(uValue)
    /\ UNCHANGED <<uField, uValue, uRound, parserVars, genVars, writeVars, cliVars, configVars>>

ParseRunStep ==
    /\ uField = "run" /\ uOut = Pending
    /\ uOut' = DeserializeRunStep(uValue)
    /\ UNCHANGED <<uField, uValue, uRound, parserVars, genVars, writeVars, cliVars, configVars>>

ParseExecutorRef ==
    /\ uField = "executor" /\ uOut = Pending
    /\ uOut' = DeserializeExecutorRef(uValue)
    /\ UNCHANGED <<uField, uValue, uRound, parserVars, genVars, writeVars, cliVars, configVars>>

ParseDockerImage ==
    /\ uField = "image" /\ uOut = Pending
    /\ uOut' = DeserializeDockerImage(uValue)
    /\ UNCHANGED <<uField, uValue, uRound, parserVars, genVars, writeVars, cliVars, configVars>>

NextUnion ==
    \/ ParseStep
    \/ ParseRunStep
    \/ ParseExecutorRef
    \/ ParseDockerImage

\* The values a machine key can hold: the payloads and a boolean.
MachinePayloads == Payloads \cup {PScalar("bool")}

\* Parse, serialize and parse again: every union over its values.
InitRound ==
    /\ uField \in {"step", "run", "executor", "image", "machine"}
    /\ uValue \in CASE uField = "step" -> StepValues
                    [] uField = "machine" -> MachinePayloads
                    [] OTHER -> Payloads
    /\ uOut = Pending
    /\ uRound = [kind |-> "none"]

ParseMachineConfig ==
    /\ uField = "machine" /\ uOut = Pending
    /\ uOut' = DeserializeMachineConfig(uValue)
    /\ UNCHANGED <<uField, uValue, uRound, parserVars, genVars, writeVars, cliVars, configVars>>

\* The parsed value is serialized and the serialized document parsed again.
SerializeAndParse ==
    /\ uOut # Pending /\ uOut.variant \notin {"Err", "none"}
    /\ uRound.kind = "none"
    /\ LET first == ParseValue(uField, uValue)
           document == SerializeValue(uField, first)
       IN uRound' = [kind |-> "done", first |-> first, document |-> document,
                     second |-> ParseValue(uField, document)]
    /\ UNCHANGED <<uField, uValue, uOut, parserVars, genVars, writeVars, cliVars, configVars>>

NextRound ==
    \/ ParseStep
    \/ ParseRunStep
    \/ ParseExecutorRef
    \/ ParseDockerImage
    \/ ParseMachineConfig
    \/ SerializeAndParse

IdleUnion ==
    /\ uField = "none"
    /\ uValue = PScalar("null")
    /\ uOut = [tried |-> <<>>, variant |-> "none"]
    /\ uRound = [kind |-> "none"]


(***************************************************************************)
(* =====  PART 3: generator (generator/mod.rs, generator/context.rs)  ==== *)
(***************************************************************************)

\* Characters of a declared name: letters of both cases, a digit, the two
\* separators the validation allows, a space and a dot; and, a name being
\* any string, a letter that has no case (U+4E2D) and a numeric character
\* that is not a decimal digit (U+00B2, superscript two).
LowerChars == {"a", "b"}
UpperChars == {"A", "B"}
DigitChars == {"1"}
CaselessLetters == {"U+4E2D"}
OtherNumerics == {"U+00B2"}
Chars ==
    LowerChars \cup UpperChars \cup DigitChars \cup CaselessLetters \cup OtherNumerics
      \cup {"-", "_", " ", "."}

OrbNames == UNION {[1..n -> Chars] : n \in 0..MaxNameLen}

\* char::is_alphabetic and char::is_alphanumeric, both over Unicode.
is_alphabetic(c) == c \in LowerChars \cup UpperChars \cup CaselessLetters
is_alphanumeric(c) == is_alphabetic(c) \/ c \in DigitChars \cup OtherNumerics

\* Option<serde_yaml::Value>: no default, or a default that is a string, a
\* boolean, a null, or a value serde_json cannot serialize (a map with a
\* key that is itself a sequence or a map).
NoDefault == [some |-> FALSE, v |-> "none"]
SomeDefault(v) == [some |-> TRUE, v |-> v]
DefaultValues == {"World", "false", "null", "unserializable"}

ParamTypes == {"string", "boolean"}

Parameters ==
    [param_type : ParamTypes,
     default : {NoDefault} \cup {SomeDefault(v) : v \in DefaultValues}]

\* serde_json::to_string on a default value: the JSON text, or an error.
to_json(v) ==
    CASE v = "World" -> [ok |-> TRUE, text |-> "\"World\""]
      [] v = "false" -> [ok |-> TRUE, text |-> "false"]
      [] v = "null" -> [ok |-> TRUE, text |-> "null"]
      [] v = "unserializable" -> [ok |-> FALSE, text |-> ""]

\* validate_orb_name, lines 275-304.
validate_orb_name_accept_all(name) ==
    [kind |-> "Ok", err |-> "", name |-> name, reason |-> ""]
validate_orb_name_no_start_check(name) ==
    IF Len(name) = 0
      THEN [kind |-> "Err", err |-> "InvalidOrbName", name |-> name, reason |-> "empty"]
    ELSE IF ~(\A i \in 1..Len(name) :
                 is_alphanumeric(name[i]) \/ name[i] = "-" \/ name[i] = "_")
      THEN [kind |-> "Err", err |-> "InvalidOrbName", name |-> name, reason |-> "chars"]
    ELSE [kind |-> "Ok", err |-> "", name |-> name, reason |-> ""]
validate_orb_name(name) ==
    IF Len(name) = 0
      THEN [kind |-> "Err", err |-> "InvalidOrbName", name |-> name, reason |-> "empty"]
    ELSE IF ~(\A i \in 1..Len(name) :
                 is_alphanumeric(name[i]) \/ name[i] = "-" \/ name[i] = "_")
      THEN [kind |-> "Err", err |-> "InvalidOrbName", name |-> name, reason |-> "chars"]
    ELSE IF ~is_alphabetic(name[1])
      THEN [kind |-> "Err", err |-> "InvalidOrbName", name |-> name, reason |-> "start"]
    ELSE [kind |-> "Ok", err |-> "", name |-> name, reason |-> ""]

\* ParameterContext::from_parameter, lines 284-300.
from_parameter_failed_default_dropped(param) ==
    LET default == IF param.default.some /\ to_json(param.default.v).ok
                     THEN SomeDefault(to_json(param.default.v).text)
                     ELSE NoDefault
    IN [param_type |-> param.param_type, default |-> default,
        required |-> ~default.some]
from_parameter(param) ==
    LET default == IF param.default.some
                     THEN SomeDefault(IF to_json(param.default.v).ok
                                        THEN to_json(param.default.v).text
                                        ELSE "null")
                     ELSE NoDefault
    IN [param_type |-> param.param_type, default |-> default,
        required |-> ~default.some]

\* params_to_json, lines 390-402: the ParameterJson of one parameter.
params_to_json(param) ==
    [param_type |-> param.param_type, default |-> param.default,
     required |-> ~param.default.some]

\* create_command_json, lines 405-422: the pretty-printed CommandJson of the
\* command that holds the parameter, or "{}" when serde_json fails on it.
create_command_json(param) ==
    IF param.default.some /\ ~to_json(param.default.v).ok
      THEN "{}"
      ELSE <<"CommandJson", params_to_json(param)>>

\* char::is_uppercase and the first character of char::to_lowercase /
\* char::to_uppercase.
is_uppercase(c) == c \in UpperChars
to_lowercase(c) == CASE c = "A" -> "a" [] c = "B" -> "b" [] OTHER -> c
to_uppercase(c) == CASE c = "a" -> "A" [] c = "b" -> "B" [] OTHER -> c

\* The characters both conversions treat as separators (lines 339 and 363).
is_separator_space_kept(c) == c = "-" \/ c = "_"
is_separator(c) == c = "-" \/ c = "_" \/ c = " "

\* String::ends_with(char).
ends_with(str, c) == Len(str) > 0 /\ str[Len(str)] = c

\* to_snake_case, line 343: whether the uppercase character at index i
\* (counted from 1) opens a word that needs an underscore before it.
opens_word_every_upper(i, prev_is_upper, acc) == i > 1 /\ ~ends_with(acc, "_")
opens_word(i, prev_is_upper, acc) ==
    i > 1 /\ ~prev_is_upper /\ ~ends_with(acc, "_")

\* to_snake_case, lines 338-352: the loop from character i on.
RECURSIVE to_snake_case_from(_, _, _, _)
to_snake_case_from(str, i, acc, prev_is_upper) ==
    IF i > Len(str) THEN acc
    ELSE LET c == str[i] IN
      IF is_separator(c)
        THEN to_snake_case_from(str, i + 1, Append(acc, "_"), FALSE)
      ELSE IF is_uppercase(c)
        THEN to_snake_case_from(
               str, i + 1,
               Append(IF opens_word(i, prev_is_upper, acc)
                        THEN Append(acc, "_") ELSE acc,
                      to_lowercase(c)),
               TRUE)
      ELSE to_snake_case_from(str, i + 1, Append(acc, c), FALSE)

\* to_snake_case, lines 334-355.
to_snake_case(str) == to_snake_case_from(str, 1, <<>>, FALSE)

\* to_pascal_case, lines 362-371: the loop from character i on.
RECURSIVE to_pascal_case_from(_, _, _, _)
to_pascal_case_from(str, i, acc, capitalize_next) ==
    IF i > Len(str) THEN acc
    ELSE LET c == str[i] IN
      IF is_separator(c) THEN to_pascal_case_from(str, i + 1, acc, TRUE)
      ELSE IF capitalize_next
        THEN to_pascal_case_from(str, i + 1, Append(acc, to_uppercase(c)), FALSE)
      ELSE to_pascal_case_from(str, i + 1, Append(acc, c), capitalize_next)

\* to_pascal_case, lines 358-374.
to_pascal_case(str) == to_pascal_case_from(str, 1, <<>>, TRUE)

\* str::replace(from, to) for single characters.
replace(str, from, to) == [i \in 1..Len(str) |-> IF str[i] = from THEN to ELSE str[i]]

\* from_orb, lines 159-160.
crate_name_of(name) == replace(to_snake_case(name), "-", "_") \o <<"_", "m", "c", "p">>
struct_name_of(name) == to_pascal_case(name) \o <<"M", "c", "p">>

\* Entity names, as the segments between the slashes of the name; a
\* resource address likewise ("orb://commands/a" is <<"orb:", "", "commands", "a">>).
EntityNames == {<<"a">>, <<"b">>, <<"overview">>, <<"jobs", "a">>}

EntitySets == {S \in SUBSET EntityNames : Cardinality(S) <= MaxEntities}

\* The entity maps of an OrbDefinition, by their keys.
OrbShapes == [commands : EntitySets, jobs : EntitySets, executors : EntitySets]

Versions == {"0.1.0", "1.5.0"}

\* The address of the fixed overview resource.
OverviewUri == <<"orb:", "", "overview">>

\* CommandContext::from_command, JobContext::from_job and
\* ExecutorContext::from_executor: the name and the address.
from_command(name) == [name |-> name, uri |-> <<"orb:", "", "commands">> \o name]
from_job_in_commands(name) == [name |-> name, uri |-> <<"orb:", "", "commands">> \o name]
from_job(name) == [name |-> name, uri |-> <<"orb:", "", "jobs">> \o name]
from_executor(name) == [name |-> name, uri |-> <<"orb:", "", "executors">> \o name]

\* from_orb, line 180.
has_resources_commands_only(commands, jobs, executors) == DOMAIN commands # {}
has_resources(commands, jobs, executors) ==
    DOMAIN commands # {} \/ DOMAIN jobs # {} \/ DOMAIN executors # {}

\* GeneratorContext::from_orb, lines 158-193; each Vec of contexts holds
\* one context per key of the map it was collected from.
from_orb(o, name, version) ==
    LET commands == [n \in o.commands |-> from_command(n)]
        jobs == [n \in o.jobs |-> from_job(n)]
        executors == [n \in o.executors |-> from_executor(n)]
    IN [orb_name |-> name,
        crate_name |-> crate_name_of(name),
        struct_name |-> struct_name_of(name),
        version |-> version,
        commands |-> commands,
        jobs |-> jobs,
        executors |-> executors,
        has_resources |-> has_resources(commands, jobs, executors)]

\* generate, lines 190-219: the templates in the order they are rendered,
\* and the path each rendered text is stored under.
Templates == <<"main.rs", "lib.rs", "Cargo.toml">>

OutputPathFlat(t) == t
OutputPath(t) ==
    CASE t = "main.rs" -> "src/main.rs"
      [] t = "lib.rs" -> "src/lib.rs"
      [] t = "Cargo.toml" -> "Cargo.toml"

AfterTemplate(t) ==
    CASE t = "main.rs" -> "lib.rs"
      [] t = "lib.rs" -> "Cargo.toml"
      [] t = "Cargo.toml" -> "return"

NoContext == [kind |-> "none"]

NoFiles == [f \in {} |-> <<>>]

\* The definition the name and parameter runs are generated from: one command.
OneCommand == [commands |-> {<<"a">>}, jobs |-> {}, executors |-> {}]

InitGen ==
    /\ gName \in OrbNames
    /\ gParam \in Parameters
    /\ gPc = "validate"
    /\ gOut = NoContext
    /\ gOrb = OneCommand
    /\ gVersion = "0.1.0"
    /\ gRendered = <<>>
    /\ gFiles = NoFiles
    /\ gResult = NoResult

\* generate, line 181.
ValidateOrbName ==
    /\ gPc = "validate"
    /\ gOut' = validate_orb_name(gName)
    /\ gPc' = IF gOut'.kind = "Ok" THEN "context" ELSE "failed"
    /\ gResult' = IF gOut'.kind = "Ok" THEN gResult
                  ELSE [kind |-> "Err", err |-> gOut'.err, name |-> gOut'.name]
    /\ UNCHANGED <<gName, gParam, gOrb, gVersion, gRendered, gFiles>>
    /\ UNCHANGED <<parserVars, unionVars, writeVars, cliVars, configVars, uRound>>

\* generate, line 184: GeneratorContext::from_orb lowers the parameter, for
\* the ParameterContext and for the JSON snapshot of its command.
BuildContext ==
    /\ gPc = "context"
    /\ gOut' = [kind |-> "Context", param |-> from_parameter(gParam),
                pjson |-> params_to_json(gParam),
                json_content |-> create_command_json(gParam),
                ctx |-> from_orb(gOrb, gName, gVersion)]
    /\ gPc' = "built"
    /\ UNCHANGED <<gName, gParam, gOrb, gVersion, gRendered, gFiles, gResult>>
    /\ UNCHANGED <<parserVars, unionVars, writeVars, cliVars, configVars, uRound>>

\* generate, lines 187-188: serde_json::to_value of the context, a record of
\* strings, options, vectors and a boolean.
Serialize ==
    /\ gPc = "built"
    /\ gPc' = "main.rs"
    /\ UNCHANGED <<gName, gParam, gOut, gOrb, gVersion, gRendered, gFiles, gResult>>
    /\ UNCHANGED <<parserVars, unionVars, writeVars, cliVars, configVars, uRound>>

\* generate, lines 193-219: render template t and store the text, or
\* return TemplateRender.
Render(t) ==
    /\ gPc = t
    /\ gRendered' = Append(gRendered, t)
    /\ \/ /\ gFiles' = MapInsert(gFiles, OutputPath(t), <<"rendered", t>>)
          /\ gPc' = AfterTemplate(t)
          /\ gResult' = gResult
       \/ /\ gResult' = [kind |-> "Err", err |-> "TemplateRender", name |-> t]
          /\ gPc' = "done"
          /\ gFiles' = gFiles
    /\ UNCHANGED <<gName, gParam, gOut, gOrb, gVersion>>
    /\ UNCHANGED <<parserVars, unionVars, writeVars, cliVars, configVars, uRound>>

\* generate, lines 221-225.
Return ==
    /\ gPc = "return"
    /\ gResult' = [kind |-> "Ok",
                   server |-> [files |-> gFiles,
                               crate_name |-> gOut.ctx.crate_name,
                               orb_name |-> gName]]
    /\ gPc' = "done"
    /\ UNCHANGED <<gName, gParam, gOut, gOrb, gVersion, gRendered, gFiles>>
    /\ UNCHANGED <<parserVars, unionVars, writeVars, cliVars, configVars, uRound>>

NextGen ==
    \/ ValidateOrbName
    \/ BuildContext
    \/ Serialize
    \/ Render("main.rs")
    \/ Render("lib.rs")
    \/ Render("Cargo.toml")
    \/ Return

IdleGen ==
    /\ gName = <<>>
    /\ gParam = [param_type |-> "string", default |-> NoDefault]
    /\ gPc = "idle"
    /\ gOut = NoContext
    /\ gOrb = [commands |-> {}, jobs |-> {}, executors |-> {}]
    /\ gVersion = ""
    /\ gRendered = <<>>
    /\ gFiles = NoFiles
    /\ gResult = NoResult

\* generate on one name, every shape of definition and every version.
InitCtx ==
    /\ gName = <<"a", "-", "b">>
    /\ gParam = [param_type |-> "string", default |-> NoDefault]
    /\ gPc = "validate"
    /\ gOut = NoContext
    /\ gOrb \in OrbShapes
    /\ gVersion \in Versions
    /\ gRendered = <<>>
    /\ gFiles = NoFiles
    /\ gResult = NoResult

\* A direct call of the public GeneratorContext::from_orb, which takes any
\* string as the name.
InitFromOrb ==
    /\ gName \in OrbNames
    /\ gParam = [param_type |-> "string", default |-> NoDefault]
    /\ gPc = "context"
    /\ gOut = NoContext
    /\ gOrb = OneCommand
    /\ gVersion \in Versions
    /\ gRendered = <<>>
    /\ gFiles = NoFiles
    /\ gResult = NoResult

(***************************************************************************)
(* ===  PART 4: GeneratedServer::write_to / format  (generator/mod.rs)  === *)
(*                                                                         *)
(* Paths are sequences of segments.  The file system is a record of the    *)
(* directories that exist and of the content of the files that exist.      *)
(* Every file-system call and every launch of the formatter can fail: the  *)
(* outcome is an input of the action that makes the call.  wLog records    *)
(* the calls in the order the code makes them.                             *)
(***************************************************************************)

\* Path::join(base, rel) for a relative rel.
join(base, rel) == base \o rel

\* Path::parent of a path with at least one segment.
parent(p) == SubSeq(p, 1, Len(p) - 1)

\* What fs::create_dir would make exist: the last directory only.
Ancestors_leaf_only(p) == {p}

\* The path itself and every ancestor of it: what create_dir_all makes exist.
Ancestors(p) == {SubSeq(p, 1, n) : n \in 1..Len(p)}

\* Path::extension of the file names used here.
extension(p) ==
    CASE p[Len(p)] = "main.rs"    -> "rs"
      [] p[Len(p)] = "lib.rs"     -> "rs"
      [] p[Len(p)] = "tool.rs"    -> "rs"
      [] p[Len(p)] = "Cargo.toml" -> "toml"
      [] OTHER                    -> "none"

\* The filter of format: every path counts as a Rust file.
is_rs_file_any(p) == TRUE

\* The filter of format: p.extension().is_some_and(|ext| ext == "rs").
is_rs_file(p) == extension(p) = "rs"

\* rs_files: the keys of self.files that pass the filter.
rs_files(files) == {p \in DOMAIN files : is_rs_file(p)}

\* run_rustfmt, by what Command::output returned.
RustfmtOutcomes == {"success", "nonzero_exit", "not_found", "launch_error"}

run_rustfmt(outcome) ==
    CASE outcome = "success"      -> [kind |-> "Ok"]
      [] outcome = "nonzero_exit" -> [kind |-> "Ok"]
      [] outcome = "not_found"    -> [kind |-> "Ok"]
      [] OTHER                    -> [kind |-> "Err", err |-> "RustfmtFailed"]

\* The relative paths a GeneratedServer may hold: the three files generate
\* produces and one file in a nested directory.
FilePaths == {<<"src", "main.rs">>, <<"src", "lib.rs">>, <<"Cargo.toml">>,
              <<"src", "bin", "tool.rs">>}

FileSets == {S \in SUBSET FilePaths : Cardinality(S) <= MaxFiles}

\* The content generate put under a path.
Generated(p) == <<"generated", p>>

\* The content a successful rustfmt run leaves in a file.
Formatted(c) == <<"formatted", c>>

OutputDirs == {<<"out">>, <<"tmp", "out">>}

\* The file systems a call can start from: the output directory absent or
\* present with its src directory, the manifest absent or left by an
\* earlier run.
DisksFor(out) ==
    {[dirs |-> d, files |-> f] :
        d \in {{}, Ancestors(join(out, <<"src">>))},
        f \in {<<>>, [p \in {join(out, <<"Cargo.toml">>)} |-> <<"old">>]}}

LogAdd(op, p, ok) == Append(wLog, [op |-> op, path |-> p, ok |-> ok])

WriteErr(e, p) == [kind |-> "Err", err |-> e, path |-> p]

InitWrite ==
    /\ wMode \in {"write_to", "format"}
    /\ wOut \in OutputDirs
    /\ \E S \in FileSets : wFiles = [p \in S |-> Generated(p)]
    /\ wPc = "mkdir_out"
    /\ wTodo = DOMAIN wFiles
    /\ wDisk \in DisksFor(wOut)
    /\ wDisk0 = wDisk
    /\ wLog = <<>>
    /\ wResult = NoResult

IdleWrite ==
    /\ wMode = "none"
    /\ wOut = <<>>
    /\ wFiles = <<>>
    /\ wPc = "idle"
    /\ wTodo = {}
    /\ wDisk = [dirs |-> {}, files |-> <<>>]
    /\ wDisk0 = [dirs |-> {}, files |-> <<>>]
    /\ wLog = <<>>
    /\ wResult = NoResult

\* write_to: fs::create_dir_all(output_dir).
CreateOutputDir ==
    /\ wPc = "mkdir_out"
    /\ \E ok \in BOOLEAN :
        /\ wLog' = LogAdd("create_dir_all", wOut, ok)
        /\ IF ok
             THEN /\ wDisk' = [wDisk EXCEPT !.dirs = @ \cup Ancestors(wOut)]
                  /\ wPc' = "mkdir_src"
                  /\ UNCHANGED wResult
             ELSE /\ wResult' = WriteErr("DirectoryCreate", wOut)
                  /\ wPc' = "done"
                  /\ UNCHANGED wDisk
    /\ UNCHANGED <<wMode, wOut, wFiles, wTodo, wDisk0>>
    /\ UNCHANGED <<parserVars, unionVars, genVars, cliVars, configVars, uRound>>

\* write_to: fs::create_dir_all(output_dir.join("src")).
CreateSrcDir ==
    /\ wPc = "mkdir_src"
    /\ LET src_dir == join(wOut, <<"src">>) IN
       \E ok \in BOOLEAN :
        /\ wLog' = LogAdd("create_dir_all", src_dir, ok)
        /\ IF ok
             THEN /\ wDisk' = [wDisk EXCEPT !.dirs = @ \cup Ancestors(src_dir)]
                  /\ wPc' = "files"
                  /\ UNCHANGED wResult
             ELSE /\ wResult' = WriteErr("DirectoryCreate", src_dir)
                  /\ wPc' = "done"
                  /\ UNCHANGED wDisk
    /\ UNCHANGED <<wMode, wOut, wFiles, wTodo, wDisk0>>
    /\ UNCHANGED <<parserVars, unionVars, genVars, cliVars, configVars, uRound>>

\* write_to: one turn of the loop over self.files.  The map is a HashMap:
\* the loop may visit the remaining paths in any order.  A failed fs::write
\* may have truncated the file it was writing.
WriteFile ==
    /\ wPc = "files"
    /\ wTodo # {}
    /\ \E rel_path \in wTodo, outcome \in {"ok", "mkdir_failed", "write_failed"},
          truncated \in BOOLEAN :
        LET full_path == join(wOut, rel_path)
            dir       == parent(full_path)
            withDir   == [wDisk EXCEPT !.dirs = @ \cup Ancestors(dir)]
        IN
        CASE outcome = "mkdir_failed" ->
                /\ ~truncated
                /\ wLog' = LogAdd("create_dir_all", dir, FALSE)
                /\ wResult' = WriteErr("DirectoryCreate", dir)
                /\ wPc' = "done"
                /\ UNCHANGED <<wDisk, wTodo>>
          [] outcome = "write_failed" ->
                /\ wLog' = Append(LogAdd("create_dir_all", dir, TRUE),
                                  [op |-> "write", path |-> full_path, ok |-> FALSE])
                /\ wDisk' = IF truncated
                              THEN [withDir EXCEPT !.files =
                                        MapInsert(@, full_path, <<"truncated">>)]
                              ELSE withDir
                /\ wResult' = WriteErr("FileWrite", full_path)
                /\ wPc' = "done"
                /\ UNCHANGED wTodo
          [] OTHER ->
                /\ ~truncated
                /\ wLog' = Append(LogAdd("create_dir_all", dir, TRUE),
                                  [op |-> "write", path |-> full_path, ok |-> TRUE])
                /\ wDisk' = [withDir EXCEPT !.files =
                                MapInsert(@, full_path, wFiles[rel_path])]
                /\ wTodo' = wTodo \ {rel_path}
                /\ UNCHANGED <<wPc, wResult>>
    /\ UNCHANGED <<wMode, wOut, wFiles, wDisk0>>
    /\ UNCHANGED <<parserVars, unionVars, genVars, cliVars, configVars, uRound>>

\* write_to returns Ok(()): the caller of write_to has its result; format
\* goes on and collects rs_files.
WriteToReturns ==
    /\ wPc = "files"
    /\ wTodo = {}
    /\ IF wMode = "write_to"
         THEN /\ wResult' = [kind |-> "Ok"]
              /\ wPc' = "done"
              /\ UNCHANGED wTodo
         ELSE /\ wTodo' = rs_files(wFiles)
              /\ wPc' = "rustfmt"
              /\ UNCHANGED wResult
    /\ UNCHANGED <<wMode, wOut, wFiles, wDisk, wDisk0, wLog>>
    /\ UNCHANGED <<parserVars, unionVars, genVars, cliVars, configVars, uRound>>

\* format: one turn of the loop over rs_files: run_rustfmt, read the file
\* back, store what was read in self.files.
FormatFile ==
    /\ wPc = "rustfmt"
    /\ wTodo # {}
    /\ \E rel_path \in wTodo, outcome \in RustfmtOutcomes, read_ok \in BOOLEAN :
        LET full_path == join(wOut, rel_path)
            ran       == run_rustfmt(outcome)
            onDisk    == IF outcome = "success"
                           THEN Formatted(wDisk.files[full_path])
                           ELSE wDisk.files[full_path]
            launched  == Append(wLog, [op |-> "rustfmt", path |-> full_path,
                                       ok |-> outcome = "success",
                                       outcome |-> outcome])
        IN
        IF ran.kind = "Err"
          THEN /\ read_ok
               /\ wLog' = launched
               /\ wResult' = [kind |-> "Err", err |-> ran.err, path |-> full_path]
               /\ wPc' = "done"
               /\ UNCHANGED <<wDisk, wFiles, wTodo>>
          ELSE /\ wLog' = Append(launched, [op |-> "read_to_string",
                                            path |-> full_path, ok |-> read_ok])
               /\ wDisk' = [wDisk EXCEPT !.files = MapInsert(@, full_path, onDisk)]
               /\ IF read_ok
                    THEN /\ wFiles' = [wFiles EXCEPT ![rel_path] = onDisk]
                         /\ wTodo' = wTodo \ {rel_path}
                         /\ UNCHANGED <<wPc, wResult>>
                    ELSE /\ wResult' = WriteErr("FileWrite", full_path)
                         /\ wPc' = "done"
                         /\ UNCHANGED <<wFiles, wTodo>>
    /\ UNCHANGED <<wMode, wOut, wDisk0>>
    /\ UNCHANGED <<parserVars, unionVars, genVars, cliVars, configVars, uRound>>

\* format returns Ok(()).
FormatReturns ==
    /\ wPc = "rustfmt"
    /\ wTodo = {}
    /\ wResult' = [kind |-> "Ok"]
    /\ wPc' = "done"
    /\ UNCHANGED <<wMode, wOut, wFiles, wTodo, wDisk, wDisk0, wLog>>
    /\ UNCHANGED <<parserVars, unionVars, genVars, cliVars, configVars, uRound>>

NextWrite ==
    \/ CreateOutputDir
    \/ CreateSrcDir
    \/ WriteFile
    \/ WriteToReturns
    \/ FormatFile
    \/ FormatReturns

(***************************************************************************)
(* ======  PART 5: Cli::run, the generate command  (lib.rs)  ============= *)
(*                                                                         *)
(* One run of the command is a process: parse, resolve_version, generate,  *)
(* write_to, and cargo build for the binary format.  Runs are separate     *)
(* processes of the operating system that share the file system, so their  *)
(* file-system calls interleave.  Each run records the paths whose state   *)
(* it changed (touched) and the files that existed when it wrote them      *)
(* (overwrote).                                                            *)
(***************************************************************************)

Runs == {"r1", "r2"}

\* DEFAULT_VERSION, lib.rs line 84.
DEFAULT_VERSION == "0.1.0"

\* Option<&str>: None, or Some of a version.
NoVersion == [some |-> FALSE, v |-> ""]
SomeVersion(v) == [some |-> TRUE, v |-> v]
VersionArgs == {NoVersion, SomeVersion("1.5.0")}

\* resolve_version with the force flag ignored.
resolve_version_force_ignored(output_exists, version, force) ==
    CASE version.some /\ ~output_exists -> [kind |-> "Ok", v |-> version.v]
      [] version.some /\ output_exists  -> [kind |-> "Ok", v |-> version.v]
      [] ~version.some /\ ~output_exists -> [kind |-> "Ok", v |-> DEFAULT_VERSION]
      [] OTHER -> [kind |-> "Err", err |-> "NeedVersion"]

\* resolve_version, lib.rs lines 240-277, by the match on
\* (version, output_exists).
resolve_version(output_exists, version, force) ==
    CASE version.some /\ ~output_exists -> [kind |-> "Ok", v |-> version.v]
      [] version.some /\ output_exists  ->
            IF ~force THEN [kind |-> "Err", err |-> "NeedForce"]
                      ELSE [kind |-> "Ok", v |-> version.v]
      [] ~version.some /\ ~output_exists -> [kind |-> "Ok", v |-> DEFAULT_VERSION]
      [] OTHER -> [kind |-> "Err", err |-> "NeedVersion"]

\* cargo_toml.exists() on the shared file system.
manifest_exists(disk, output) == join(output, <<"Cargo.toml">>) \in DOMAIN disk.files

\* The three files of the GeneratedServer generate returns.
ServerFiles == {<<"src", "main.rs">>, <<"src", "lib.rs">>, <<"Cargo.toml">>}

\* The text run r generated for a path.
GeneratedBy(r, p) == <<"generated", r, p>>

\* The orb names a run may be given: one the validation accepts, one it
\* rejects.
CliNames == {<<"a">>, <<"1">>}

OutputFormats == {"Source", "Binary"}

\* What can stop generate after the name was accepted: nothing, or the
\* render of one template.
RenderOutcomes == {"ok", "main.rs", "lib.rs", "Cargo.toml"}

\* The file systems a command can start from: nothing, the directories, or
\* the directories with files left by an earlier run.
CliDisks ==
    {[dirs |-> {}, files |-> <<>>]}
      \cup {[dirs |-> Ancestors(<<"out", "src">>), files |-> [p \in S |-> <<"old">>]] :
              S \in SUBSET {<<"out", "Cargo.toml">>, <<"out", "src", "main.rs">>}}

RunArgs ==
    [output : OutputDirs, version : VersionArgs, force : BOOLEAN,
     format : OutputFormats, name : CliNames]

CliErr(e) == [kind |-> "Err", err |-> e]

\* generate, had it returned the files without looking at what the renders
\* returned.
generate_result_render_unchecked(name, rendered) ==
    IF validate_orb_name(name).kind = "Err" THEN CliErr("InvalidOrbName")
    ELSE [kind |-> "Ok"]

\* What generate returns (mod.rs lines 174-226): the name is validated, the
\* context built and serialized, and the three templates rendered, each with
\* `?`; only then the files are returned.
generate_result(name, rendered) ==
    IF validate_orb_name(name).kind = "Err" THEN CliErr("InvalidOrbName")
    ELSE IF rendered # "ok" THEN CliErr("TemplateRender")
    ELSE [kind |-> "Ok"]

\* A run that has not started.
StartOf(args) ==
    [output |-> args.output, version |-> args.version, force |-> args.force,
     format |-> args.format, name |-> args.name,
     pc |-> "parse", saw_manifest |-> FALSE, resolved |-> [kind |-> "none"],
     rendered |-> "none", todo |-> {}, touched |-> {}, overwrote |-> {}, result |-> NoResult]

\* A run that is not part of the behaviour.
NoRun ==
    [output |-> <<>>, version |-> NoVersion, force |-> FALSE,
     format |-> "Source", name |-> <<>>,
     pc |-> "idle", saw_manifest |-> FALSE, resolved |-> [kind |-> "none"],
     rendered |-> "none", todo |-> {}, touched |-> {}, overwrote |-> {}, result |-> NoResult]

\* One run of the command on every file system and every argument list.
InitCli ==
    /\ \E args \in RunArgs : cRun = [r \in Runs |-> IF r = "r1" THEN StartOf(args) ELSE NoRun]
    /\ cDisk \in CliDisks
    /\ cDisk0 = cDisk

\* Two runs started together on a fresh file system, from the same or from
\* different output directories.
InitTwoRuns ==
    /\ \E o1, o2 \in OutputDirs, f \in OutputFormats :
         cRun = [r \in Runs |->
                   StartOf([output |-> IF r = "r1" THEN o1 ELSE o2,
                            version |-> NoVersion, force |-> FALSE,
                            format |-> f, name |-> <<"a">>])]
    /\ cDisk = [dirs |-> {}, files |-> <<>>]
    /\ cDisk0 = cDisk

IdleCli ==
    /\ cRun = [r \in Runs |-> NoRun]
    /\ cDisk = [dirs |-> {}, files |-> <<>>]
    /\ cDisk0 = [dirs |-> {}, files |-> <<>>]

\* run, line 101: OrbParser::parse(orb_path)?.
CliParse(r) ==
    /\ cRun[r].pc = "parse"
    /\ \E ok \in BOOLEAN :
         cRun' = [cRun EXCEPT ![r] =
                    IF ok THEN [@ EXCEPT !.pc = "resolve"]
                          ELSE [@ EXCEPT !.pc = "done", !.result = CliErr("Parse")]]
    /\ UNCHANGED <<cDisk, cDisk0>>
    /\ UNCHANGED <<parserVars, unionVars, genVars, writeVars, configVars, uRound>>

\* run, line 113: resolve_version(output, version.as_deref(), *force)?.
CliResolveVersion(r) ==
    /\ cRun[r].pc = "resolve"
    /\ LET exists == manifest_exists(cDisk, cRun[r].output)
           res    == resolve_version(exists, cRun[r].version, cRun[r].force)
       IN cRun' = [cRun EXCEPT ![r] =
                    IF res.kind = "Ok"
                      THEN [@ EXCEPT !.pc = "new", !.saw_manifest = exists,
                                     !.resolved = res]
                      ELSE [@ EXCEPT !.pc = "done", !.saw_manifest = exists,
                                     !.resolved = res, !.result = CliErr(res.err)]]
    /\ UNCHANGED <<cDisk, cDisk0>>
    /\ UNCHANGED <<parserVars, unionVars, genVars, writeVars, configVars, uRound>>

\* run, line 117: CodeGenerator::new()?.
CliNewGenerator(r) ==
    /\ cRun[r].pc = "new"
    /\ \E ok \in BOOLEAN :
         cRun' = [cRun EXCEPT ![r] =
                    IF ok THEN [@ EXCEPT !.pc = "generate"]
                          ELSE [@ EXCEPT !.pc = "done",
                                         !.result = CliErr("TemplateRegister")]]
    /\ UNCHANGED <<cDisk, cDisk0>>
    /\ UNCHANGED <<parserVars, unionVars, genVars, writeVars, configVars, uRound>>

\* run, lines 118-120: generator.generate(&orb, &orb_name, &resolved_version)?.
CliGenerate(r) ==
    /\ cRun[r].pc = "generate"
    /\ \E rendered \in RenderOutcomes :
         LET server == generate_result(cRun[r].name, rendered)
             seen   == IF validate_orb_name(cRun[r].name).kind = "Err"
                         THEN "none" ELSE rendered
         IN cRun' = [cRun EXCEPT ![r] =
                       IF server.kind = "Err"
                         THEN [@ EXCEPT !.pc = "done", !.rendered = seen,
                                        !.result = server]
                         ELSE [@ EXCEPT !.pc = "mkdir_out", !.rendered = seen,
                                        !.todo = ServerFiles]]
    /\ UNCHANGED <<cDisk, cDisk0>>
    /\ UNCHANGED <<parserVars, unionVars, genVars, writeVars, configVars, uRound>>

\* write_to as called from run (lines 125-127 and 140-142): one
\* create_dir_all of the output directory or of its src directory.
CliCreateDir(r) ==
    /\ cRun[r].pc \in {"mkdir_out", "mkdir_src"}
    /\ LET dir == IF cRun[r].pc = "mkdir_out" THEN cRun[r].output
                  ELSE join(cRun[r].output, <<"src">>)
       IN \E ok \in BOOLEAN :
            IF ok
              THEN /\ cDisk' = [cDisk EXCEPT !.dirs = @ \cup Ancestors(dir)]
                   /\ cRun' = [cRun EXCEPT
                                 ![r].pc = IF @ = "mkdir_out" THEN "mkdir_src" ELSE "files",
                                 ![r].touched = @ \cup (Ancestors(dir) \ cDisk.dirs)]
              ELSE /\ cRun' = [cRun EXCEPT ![r].pc = "done",
                                           ![r].result = CliErr("DirectoryCreate")]
                   /\ UNCHANGED cDisk
    /\ UNCHANGED cDisk0
    /\ UNCHANGED <<parserVars, unionVars, genVars, writeVars, configVars, uRound>>

\* write_to as called from run: one turn of the loop over the files.
CliWriteFile(r) ==
    /\ cRun[r].pc = "files"
    /\ cRun[r].todo # {}
    /\ \E rel_path \in cRun[r].todo, outcome \in {"ok", "mkdir_failed", "write_failed"},
          truncated \in BOOLEAN :
        LET full_path == join(cRun[r].output, rel_path)
            dir       == parent(full_path)
            withDir   == [cDisk EXCEPT !.dirs = @ \cup Ancestors(dir)]
            newDirs   == Ancestors(dir) \ cDisk.dirs
            existed   == IF full_path \in DOMAIN cDisk.files THEN {full_path} ELSE {}
        IN
        CASE outcome = "mkdir_failed" ->
                /\ ~truncated
                /\ cRun' = [cRun EXCEPT ![r].pc = "done",
                                        ![r].result = CliErr("DirectoryCreate")]
                /\ UNCHANGED cDisk
          [] outcome = "write_failed" ->
                /\ cDisk' = IF truncated
                              THEN [withDir EXCEPT !.files =
                                        MapInsert(@, full_path, <<"truncated">>)]
                              ELSE withDir
                /\ cRun' = [cRun EXCEPT
                              ![r].pc = "done",
                              ![r].result = CliErr("FileWrite"),
                              ![r].touched = @ \cup newDirs
                                               \cup (IF truncated THEN {full_path} ELSE {}),
                              ![r].overwrote = @ \cup (IF truncated THEN existed ELSE {})]
          [] OTHER ->
                /\ ~truncated
                /\ cDisk' = [withDir EXCEPT !.files =
                                MapInsert(@, full_path, GeneratedBy(r, rel_path))]
                /\ cRun' = [cRun EXCEPT
                              ![r].todo = @ \ {rel_path},
                              ![r].touched = @ \cup newDirs \cup {full_path},
                              ![r].overwrote = @ \cup existed]
    /\ UNCHANGED cDisk0
    /\ UNCHANGED <<parserVars, unionVars, genVars, writeVars, configVars, uRound>>

\* write_to returned Ok(()): the source format prints and returns Ok (lines
\* 128-137 and 176), the binary format goes on to cargo build.
CliWritten(r) ==
    /\ cRun[r].pc = "files"
    /\ cRun[r].todo = {}
    /\ cRun' = [cRun EXCEPT ![r] =
                  IF cRun[r].format = "Source"
                    THEN [@ EXCEPT !.pc = "done", !.result = [kind |-> "Ok"]]
                    ELSE [@ EXCEPT !.pc = "build"]]
    /\ UNCHANGED <<cDisk, cDisk0>>
    /\ UNCHANGED <<parserVars, unionVars, genVars, writeVars, configVars, uRound>>

\* run, lines 144-172: cargo build --release in the output directory.  What
\* the build writes below target/ is not part of the modelled file system.
CliCargoBuild(r) ==
    /\ cRun[r].pc = "build"
    /\ \E status \in {"success", "failed", "launch_error"} :
         cRun' = [cRun EXCEPT ![r].pc = "done",
                              ![r].result =
                                  CASE status = "success" -> [kind |-> "Ok"]
                                    [] status = "failed" -> CliErr("CompilationFailed")
                                    [] OTHER -> CliErr("CargoNotRun")]
    /\ UNCHANGED <<cDisk, cDisk0>>
    /\ UNCHANGED <<parserVars, unionVars, genVars, writeVars, configVars, uRound>>

NextCli ==
    \/ \E r \in Runs : CliParse(r)
    \/ \E r \in Runs : CliResolveVersion(r)
    \/ \E r \in Runs : CliNewGenerator(r)
    \/ \E r \in Runs : CliGenerate(r)
    \/ \E r \in Runs : CliCreateDir(r)
    \/ \E r \in Runs : CliWriteFile(r)
    \/ \E r \in Runs : CliWritten(r)
    \/ \E r \in Runs : CliCargoBuild(r)

(***************************************************************************)
(* ====  PART 6: ExecutorConfigContext::from_config (context.rs)  ======== *)
(*                                                                         *)
(* The input document declares the environment variables of an execution  *)
(* config as a YAML mapping, in an order.  The parser stores them in a     *)
(* HashMap<String, String>, which keeps the pairs and not their order, and *)
(* from_config collects the list from an iteration over that HashMap.      *)
(***************************************************************************)

EnvKeys == {"A", "B"}
EnvValues == {"1", "2"}

\* The environment mappings a document can declare: pairs in document
\* order, every key once.
EnvDocs ==
    UNION {{l \in [1..n -> EnvKeys \X EnvValues] :
              \A i, j \in 1..n : i # j => l[i][1] # l[j][1]} : n \in 0..MaxEnv}

\* DockerImage: Simple(String) or Full(DockerImageFull), by the fields the
\* lowering reads.
ImageValues ==
    {[variant |-> "Simple", image |-> "rust:1.75", name |-> ""],
     [variant |-> "Full", image |-> "postgres:16", name |-> "db"]}

\* Option<Vec<DockerImage>>.
NoDocker == [some |-> FALSE, images |-> <<>>]
DockerDocs ==
    {NoDocker} \cup {[some |-> TRUE, images |-> l] :
                        l \in UNION {[1..n -> ImageValues] : n \in 0..MaxImages}}

ConfigDocs == [environment : EnvDocs, docker : DockerDocs]

\* ExecutorConfig.environment after the parse: the HashMap of the pairs.
environment_of(d) ==
    [k \in {d.environment[i][1] : i \in DOMAIN d.environment} |->
        (CHOOSE i \in DOMAIN d.environment : d.environment[i][1] = k)]

parsed_environment(d) ==
    [k \in DOMAIN environment_of(d) |-> d.environment[environment_of(d)[k]][2]]

\* The orders in which an iteration over a HashMap can yield its keys.
IterationOrders(m) ==
    {l \in [1..Cardinality(DOMAIN m) -> DOMAIN m] :
        \A i, j \in DOMAIN l : i # j => l[i] # l[j]}

\* extract_docker_images, lines 316-331.
extract_docker_images(docker) ==
    IF docker.some
      THEN [i \in DOMAIN docker.images |-> docker.images[i].image]
      ELSE <<>>

InitConfig ==
    /\ eConfig \in ConfigDocs
    /\ eOut = [kind |-> "pending"]

IdleConfig ==
    /\ eConfig = [environment |-> <<>>, docker |-> NoDocker]
    /\ eOut = [kind |-> "none"]

\* ExecutorConfigContext::from_config, lines 265-281.
FromConfig ==
    /\ eOut.kind = "pending"
    /\ LET env == parsed_environment(eConfig) IN
       \E order \in IterationOrders(env) :
          eOut' = [kind |-> "Context",
                   docker_images |-> extract_docker_images(eConfig.docker),
                   environment |-> [i \in DOMAIN order |-> <<order[i], env[order[i]]>>]]
    /\ UNCHANGED eConfig
    /\ UNCHANGED <<parserVars, unionVars, uRound, genVars, writeVars, cliVars>>

NextConfig == FromConfig

Init == InitParser /\ IdleUnion /\ IdleGen /\ IdleWrite /\ IdleCli /\ IdleConfig

Spec == Init /\ [][Next]_vars

InitSpecUnion == IdleParser /\ InitUnion /\ IdleGen /\ IdleWrite /\ IdleCli /\ IdleConfig

SpecUnion == InitSpecUnion /\ [][NextUnion]_vars

InitSpecGen == IdleParser /\ IdleUnion /\ InitGen /\ IdleWrite /\ IdleCli /\ IdleConfig

SpecGen == InitSpecGen /\ [][NextGen]_vars

InitSpecCtx == IdleParser /\ IdleUnion /\ InitCtx /\ IdleWrite /\ IdleCli /\ IdleConfig

SpecCtx == InitSpecCtx /\ [][NextGen]_vars

InitSpecFromOrb == IdleParser /\ IdleUnion /\ InitFromOrb /\ IdleWrite /\ IdleCli /\ IdleConfig

NextFromOrb == BuildContext

SpecFromOrb == InitSpecFromOrb /\ [][NextFromOrb]_vars

InitSpecWrite == IdleParser /\ IdleUnion /\ IdleGen /\ InitWrite /\ IdleCli /\ IdleConfig

SpecWrite == InitSpecWrite /\ [][NextWrite]_vars

InitSpecCli == IdleParser /\ IdleUnion /\ IdleGen /\ IdleWrite /\ InitCli /\ IdleConfig

SpecCli == InitSpecCli /\ [][NextCli]_vars

InitSpecTwoRuns == IdleParser /\ IdleUnion /\ IdleGen /\ IdleWrite /\ InitTwoRuns /\ IdleConfig

SpecTwoRuns == InitSpecTwoRuns /\ [][NextCli]_vars

InitSpecConfig ==
    IdleParser /\ IdleUnion /\ IdleGen /\ IdleWrite /\ IdleCli /\ InitConfig

SpecConfig == InitSpecConfig /\ [][NextConfig]_vars

InitSpecRound ==
    IdleParser /\ InitRound /\ IdleGen /\ IdleWrite /\ IdleCli /\ IdleConfig

SpecRound == InitSpecRound /\ [][NextRound]_vars

(***************************************************************************)
(* Claims about OrbParser::parse (checked under Spec).                     *)
(***************************************************************************)

\* The entries of a listing parse_directory reads as entities: not a
\* directory, extension yml or yaml.
Recognized(e) ==
    e.kind \in {"ok", "unreadable", "malformed", "badname"} /\ e.ext \in {"yml", "yaml"}

EntityFiles(cat) ==
    {dirs[cat].entries[i] : i \in {j \in 1..Len(dirs[cat].entries) :
                                      Recognized(dirs[cat].entries[j])}}

ParsedUnpacked == pc = "done" /\ layout = "unpacked" /\ result.kind = "Ok"

\* C1: parse picks the multi-file parser exactly when the path is a
\* directory or its file name is "@orb.yml", whatever the file holds.
C1_LayoutFromPathShape ==
    pc # "start" =>
        /\ layout \in {"unpacked", "packed"}
        /\ layout = "unpacked" <=> (path.isDir \/ path.fileName = "@orb.yml")
        /\ pc = "done" /\ layout = "packed" => dirs = [c \in CategorySet |-> NoDir]
        /\ pc = "done" /\ layout = "unpacked" /\ doc.st = "malformed"
             => result = [kind |-> "Err", err |-> "YamlParse", path |-> OrbYmlPath(path)]

\* C1 witness: a malformed file named @orb.yml went through the multi-file
\* parser and failed there.
C1_Witness ==
    /\ pc = "done" /\ ~path.isDir /\ path.fileName = "@orb.yml"
    /\ doc.st = "malformed" /\ layout = "unpacked" /\ result.kind = "Err"

\* C2: after a multi-file parse, a category whose directory holds at least
\* one entity file maps exactly the stems of those files to entities parsed
\* from them; no inline entry of the root document survives.
C2_DirectoryReplacesInline ==
    ParsedUnpacked =>
        \A cat \in CategorySet :
            dirs[cat].exists /\ EntityFiles(cat) # {} =>
                /\ DOMAIN result.def[cat] = {e.stem : e \in EntityFiles(cat)}
                /\ \A n \in DOMAIN result.def[cat] :
                       \E e \in EntityFiles(cat) :
                           e.stem = n /\ result.def[cat][n] = FileEntity(e)

\* C2 witness: the root document defines `a` inline and the directory holds
\* only b.yml.
C2_Witness ==
    /\ ParsedUnpacked
    /\ \E cat \in CategorySet :
           /\ "a" \in DOMAIN doc.def[cat]
           /\ EntityFiles(cat) # {}
           /\ "a" \notin {e.stem : e \in EntityFiles(cat)}

\* C3: a category whose directory exists and holds no entity file ends
\* empty, also when the root document defines entities inline.
C3_EmptyDirectoryEmptiesCategory ==
    ParsedUnpacked =>
        \A cat \in CategorySet :
            dirs[cat].exists /\ EntityFiles(cat) = {} => result.def[cat] = EmptyMap

\* C3 witness: a non-empty inline map met an existing directory without
\* entity files.
C3_Witness ==
    /\ ParsedUnpacked
    /\ \E cat \in CategorySet :
           /\ doc.def[cat] # EmptyMap
           /\ dirs[cat].exists
           /\ EntityFiles(cat) = {}

\* C4: in the multi-file parse a missing root document gives MissingFile,
\* any other failed read of it gives FileRead, never the other way round,
\* and both carry the path of the root document.
C4_MissingVersusUnreadableRoot ==
    pc = "done" /\ layout = "unpacked" =>
        /\ doc.st = "absent"
             <=> (result.kind = "Err" /\ result.err = "MissingFile")
        /\ doc.st \in {"denied", "notutf8"}
             <=> (result.kind = "Err" /\ result.err = "FileRead"
                    /\ result.path = OrbYmlPath(path))
        /\ result.kind = "Err" /\ result.err = "MissingFile"
             => result.path = OrbYmlPath(path)

\* C4 witness: the root document was missing and MissingFile came back.
C4_Witness ==
    /\ pc = "done" /\ layout = "unpacked" /\ doc.st = "absent"
    /\ result.kind = "Err" /\ result.err = "MissingFile"

\* The paths whose reading, enumeration or parsing failed in this run.
FailingPaths ==
    (IF doc.st = "doc" THEN {}
     ELSE {IF layout = "unpacked" THEN OrbYmlPath(path) ELSE PathOf(path)})
    \cup {DirPath(path, cat) : cat \in {c \in CategorySet :
              dirs[c].exists /\
                (~dirs[c].readable
                   \/ \E i \in 1..Len(dirs[c].entries) : dirs[c].entries[i].kind = "ioerr")}}
    \cup UNION {{EntryPath(path, cat, e) :
                    e \in {f \in EntityFiles(cat) : f.kind # "ok"}}
                : cat \in CategorySet}

\* C5: a parse in which anything failed returns an error that names a
\* failing path and carries no definition; it returns a definition only
\* when nothing failed.
C5_AllOrNothing ==
    pc = "done" =>
        /\ (FailingPaths # {}) <=> result.kind = "Err"
        /\ result.kind = "Err" =>
              /\ result.path \in FailingPaths
              /\ DOMAIN result = {"kind", "err", "path"}
        /\ result.kind = "Ok" => DOMAIN result = {"kind", "def"}

\* C5 witness: an entity file failed after another entity of the same parse
\* had been read into the definition under construction.
C5_Witness ==
    /\ pc = "done" /\ result.kind = "Err"
    /\ result.err \in {"FileRead", "YamlParse"}
    /\ Len(result.path) = 4
    /\ \E cat \in CategorySet : \E n \in DOMAIN orb[cat] : orb[cat][n][1] = "file"

\* C6: after a multi-file parse the keys of a category are the stems of the
\* yml/yaml files of its directory, each key holds the content of its file,
\* and every such file is represented by an entity.
C6_EveryEntityFileRepresented ==
    ParsedUnpacked =>
        \A cat \in CategorySet :
            dirs[cat].exists =>
                /\ DOMAIN result.def[cat] = {e.stem : e \in EntityFiles(cat)}
                /\ \A e \in EntityFiles(cat) : result.def[cat][e.stem] = FileEntity(e)

(***************************************************************************)
(* Claims about the untagged unions (checked under SpecUnion).             *)
(***************************************************************************)

StepParsed == uField = "step" /\ uOut # Pending

OneKeyMap(v) == v.k = "map" /\ ~v.more

UnionOrder(field) ==
    CASE field = "step" -> <<"Simple", "Tagged", "CommandInvocation">>
      [] field = "run" -> <<"Simple", "Full">>
      [] field = "executor" -> <<"Name", "WithParams">>
      [] field = "image" -> <<"Simple", "Full">>

\* Whether value v has the structure of shape sh of the union.
ShapeValid(field, sh, v) ==
    CASE sh \in {"Simple", "Name"} -> v.k = "str"
      [] sh = "Tagged" -> TaggedValid(v)
      [] sh = "CommandInvocation" -> CommandInvocationValid(v)
      [] sh = "Full" /\ field = "run" -> StructVariantValid(RunStepFull, v)
      [] sh = "Full" /\ field = "image" -> StructValid(DockerImageFull, v)
      [] sh = "WithParams" -> StructVariantValid(ExecutorRefWithParams, v)

VariantOfShape(sh, v) == IF sh = "Tagged" THEN VariantOfKey(v.key) ELSE sh

\* C8: each union tries its shapes in the declared order, the bare string
\* first, and returns the first shape the value has; a value that has any
\* of the shapes is accepted, with one interpretation.
C8_FirstValidShapeInFixedOrder ==
    uField # "none" /\ uOut # Pending =>
        LET o == UnionOrder(uField)
            t == uOut.tried
        IN /\ Len(t) >= 1 /\ Len(t) <= Len(o)
           /\ \A i \in 1..Len(t) : t[i] = o[i]
           /\ ShapeValid(uField, o[1], uValue) <=> uValue.k = "str"
           /\ \A i \in 1..(Len(t) - 1) : ~ShapeValid(uField, t[i], uValue)
           /\ IF ShapeValid(uField, t[Len(t)], uValue)
                THEN uOut.variant = VariantOfShape(t[Len(t)], uValue)
                ELSE uOut.variant = "Err" /\ Len(t) = Len(o)
           /\ (\E i \in 1..Len(o) : ShapeValid(uField, o[i], uValue))
                => uOut.variant # "Err"

\* C8 witness: a step with the structure of two shapes ({run: <string>} is
\* a tagged variant and a map) got the earlier one.
C8_Witness ==
    /\ StepParsed
    /\ TaggedValid(uValue) /\ CommandInvocationValid(uValue)
    /\ uOut.variant = "Run"

(***************************************************************************)
(* Claims about the generator (checked under SpecGen).                     *)
(***************************************************************************)

\* C9: the required flag of a lowered parameter says that the parameter has
\* no default, in the ParameterContext and in the JSON snapshot alike.
C9_RequiredIffNoDefault ==
    gPc = "built" =>
        /\ gOut.param.required = ~gParam.default.some
        /\ gOut.pjson.required = ~gParam.default.some
        /\ gOut.param.required = gOut.pjson.required
        /\ gOut.param.required = ~gOut.param.default.some

\* C9 witness: a parameter whose default serde_json cannot serialize was
\* lowered as not required.
C9_Witness ==
    /\ gPc = "built"
    /\ gParam.default = SomeDefault("unserializable")
    /\ ~gOut.param.required

\* C10: a name is accepted exactly when it is non-empty, made of letters,
\* digits, hyphens and underscores, and starts with a letter; a rejected
\* name comes back unchanged in an InvalidOrbName error.
ValidByRule(name) ==
    /\ name # <<>>
    /\ \A i \in 1..Len(name) :
          name[i] \in LowerChars \cup UpperChars \cup CaselessLetters
                        \cup DigitChars \cup OtherNumerics \cup {"-", "_"}
    /\ name[1] \in LowerChars \cup UpperChars \cup CaselessLetters

C10_NameAcceptedIffWellFormed ==
    gPc \in {"context", "failed"} =>
        /\ gPc = "context" <=> ValidByRule(gName)
        /\ gPc = "context" => gOut.kind = "Ok"
        /\ gPc = "failed" =>
              /\ gOut.kind = "Err" /\ gOut.err = "InvalidOrbName"
              /\ gOut.name = gName

\* C10 witness: a name of allowed characters that starts with a digit was
\* rejected.
C10_Witness ==
    /\ gPc = "failed" /\ Len(gName) >= 2
    /\ gName[1] = "1" /\ gName[2] = "a"
    /\ \A i \in 1..Len(gName) : gName[i] \in {"a", "1", "-"}

\* C11: generate validates the name first: with an invalid name it returns
\* InvalidOrbName carrying that name, and has built no context, rendered no
\* template and put no file in its file set.
C11_InvalidNameStopsGenerate ==
    gPc # "validate" /\ ~ValidByRule(gName) =>
        /\ gPc = "failed"
        /\ gResult = [kind |-> "Err", err |-> "InvalidOrbName", name |-> gName]
        /\ gOut.kind # "Context"
        /\ gRendered = <<>>
        /\ gFiles = NoFiles

\* C11 witness: generate returned on the empty name.
C11_Witness ==
    /\ gPc = "failed" /\ gName = <<>>
    /\ gResult.kind = "Err" /\ gRendered = <<>>

(***************************************************************************)
(* Claims about the derived identifiers (checked under SpecFromOrb, a      *)
(* direct call of from_orb with any string as the name).                   *)
(***************************************************************************)

Separators == {"-", "_", " "}

McpSuffix == <<"_", "m", "c", "p">>

\* What character i of a name contributes to the snake-case form: a
\* separator gives one underscore; an uppercase letter gives its lowercase
\* form, after an underscore when the character before it is neither
\* uppercase nor a separator; any other character gives itself.
SnakePiece(str, i) ==
    IF str[i] \in Separators THEN <<"_">>
    ELSE IF str[i] \in UpperChars
      THEN (IF i > 1 /\ str[i - 1] \notin UpperChars /\ str[i - 1] \notin Separators
              THEN <<"_">> ELSE <<>>) \o <<to_lowercase(str[i])>>
    ELSE <<str[i]>>

\* What character i contributes to the upper-camel form: a separator gives
\* nothing; the first character and a character after a separator give
\* their uppercase form; any other character gives itself.
PascalPiece(str, i) ==
    IF str[i] \in Separators THEN <<>>
    ELSE IF i = 1 \/ str[i - 1] \in Separators THEN <<to_uppercase(str[i])>>
    ELSE <<str[i]>>

RECURSIVE SnakeUpTo(_, _)
SnakeUpTo(str, n) == IF n = 0 THEN <<>> ELSE SnakeUpTo(str, n - 1) \o SnakePiece(str, n)

RECURSIVE PascalUpTo(_, _)
PascalUpTo(str, n) == IF n = 0 THEN <<>> ELSE PascalUpTo(str, n - 1) \o PascalPiece(str, n)

\* C12: from_orb gives the package identifier snake(name) ++ "_mcp" and the
\* type identifier camel(name) ++ "Mcp", with hyphen, underscore and space
\* as word boundaries, a lower-to-upper transition as a word boundary of
\* the snake form and a run of uppercase letters opening one word only;
\* the name and the version pass through unchanged.
C12_DerivedIdentifiers ==
    gPc = "built" =>
        /\ gOut.ctx.crate_name = SnakeUpTo(gName, Len(gName)) \o McpSuffix
        /\ gOut.ctx.struct_name = PascalUpTo(gName, Len(gName)) \o <<"M", "c", "p">>
        /\ gOut.ctx.orb_name = gName
        /\ gOut.ctx.version = gVersion
        /\ gName = <<"a", "-", "b">> =>
              /\ gOut.ctx.crate_name = <<"a", "_", "b", "_", "m", "c", "p">>
              /\ gOut.ctx.struct_name = <<"A", "B", "M", "c", "p">>

\* C12 witness: a name with a lower-to-upper transition and a run of two
\* uppercase letters got one underscore.
C12_Witness ==
    /\ gPc = "built" /\ gName = <<"a", "B", "B">> /\ gVersion = "1.5.0"
    /\ gOut.ctx.crate_name = <<"a", "_", "b", "b", "_", "m", "c", "p">>
    /\ gOut.ctx.struct_name = <<"A", "B", "B", "M", "c", "p">>

\* A name that is already lowercase with separators.
LowerWithSeparators(name) ==
    \A i \in 1..Len(name) : name[i] \in LowerChars \cup DigitChars \cup Separators

\* A name that is already lowercase with the underscore as only separator.
LowerWithUnderscores(name) ==
    \A i \in 1..Len(name) : name[i] \in LowerChars \cup DigitChars \cup {"_"}

\* C13 as stated: the snake-case form of a name that is already lowercase
\* with hyphens, underscores or spaces is the name itself.
C13_SnakeCaseNoOp_AsStated ==
    gPc = "built" /\ LowerWithSeparators(gName) =>
        gOut.ctx.crate_name = gName \o McpSuffix

\* C13 amended: the snake-case form of a name that is already lowercase
\* with underscores is the name itself; in a lowercase name with hyphens or
\* spaces exactly those become underscores.
C13_SnakeCaseNoOp ==
    gPc = "built" =>
        /\ LowerWithUnderscores(gName) => gOut.ctx.crate_name = gName \o McpSuffix
        /\ LowerWithSeparators(gName) =>
              gOut.ctx.crate_name =
                  [i \in 1..Len(gName) |->
                      IF gName[i] \in Separators THEN "_" ELSE gName[i]] \o McpSuffix

\* C13 witness: a_b was derived from a_b.
C13_Witness ==
    /\ gPc = "built" /\ gName = <<"a", "_", "b">>
    /\ gOut.ctx.crate_name = <<"a", "_", "b">> \o McpSuffix

\* C14 (checked under SpecGen): no other name that passes the validation
\* yields the package identifier, or the type identifier, derived for the
\* validated name of this run.
C14_IdentifiersCollisionFree ==
    gPc = "built" =>
        \A other \in OrbNames :
            other # gName /\ validate_orb_name(other).kind = "Ok" =>
                /\ from_orb(gOrb, other, gVersion).crate_name # gOut.ctx.crate_name
                /\ from_orb(gOrb, other, gVersion).struct_name # gOut.ctx.struct_name

(***************************************************************************)
(* Claims about the context and the file set of generate (checked under    *)
(* SpecCtx: every shape of definition).                                    *)
(***************************************************************************)

ContextBuilt == gOut.kind = "Context"

\* The addresses the context holds, per category and all together.
UrisOf(contexts) == {contexts[n].uri : n \in DOMAIN contexts}

AllUris ==
    UrisOf(gOut.ctx.commands) \cup UrisOf(gOut.ctx.jobs) \cup UrisOf(gOut.ctx.executors)

\* C15: every entity's address is orb://<category>/<name>; a definition
\* with N commands, M jobs and K executors gives N + M + K contexts with
\* pairwise distinct addresses, also when categories share a name, and
\* none is the overview address.
C15_ResourceAddressesDistinct ==
    ContextBuilt =>
        /\ DOMAIN gOut.ctx.commands = gOrb.commands
        /\ DOMAIN gOut.ctx.jobs = gOrb.jobs
        /\ DOMAIN gOut.ctx.executors = gOrb.executors
        /\ \A n \in gOrb.commands :
              gOut.ctx.commands[n].uri = <<"orb:", "", "commands">> \o n
        /\ \A n \in gOrb.jobs : gOut.ctx.jobs[n].uri = <<"orb:", "", "jobs">> \o n
        /\ \A n \in gOrb.executors :
              gOut.ctx.executors[n].uri = <<"orb:", "", "executors">> \o n
        /\ Cardinality(AllUris) =
              Cardinality(gOrb.commands) + Cardinality(gOrb.jobs)
                + Cardinality(gOrb.executors)
        /\ OverviewUri \notin AllUris

\* C15 witness: the name `a` is a command and a job, and an executor is
\* named `overview`.
C15_Witness ==
    /\ ContextBuilt
    /\ <<"a">> \in gOrb.commands \cap gOrb.jobs
    /\ <<"overview">> \in gOrb.executors
    /\ Cardinality(AllUris) >= 3

\* C16: has_resources is true exactly when the definition has a command, a
\* job or an executor.
C16_HasResourcesIffAnyEntity ==
    ContextBuilt =>
        gOut.ctx.has_resources
          = (gOrb.commands \cup gOrb.jobs \cup gOrb.executors # {})

\* C16 witness: a context built from a definition without entities has the
\* flag false.
C16_Witness ==
    /\ ContextBuilt
    /\ gOrb.commands = {} /\ gOrb.jobs = {} /\ gOrb.executors = {}
    /\ ~gOut.ctx.has_resources

\* C17: a successful generate returns exactly the files src/main.rs,
\* src/lib.rs and Cargo.toml, whatever the definition holds; a failed
\* render returns TemplateRender naming the template that failed, and no
\* file set.
C17_ThreeFilesOrRenderError ==
    gPc = "done" =>
        /\ gResult.kind \in {"Ok", "Err"}
        /\ gResult.kind = "Ok" =>
              /\ DOMAIN gResult.server.files = {"src/main.rs", "src/lib.rs", "Cargo.toml"}
              /\ gRendered = <<"main.rs", "lib.rs", "Cargo.toml">>
        /\ gResult.kind = "Err" =>
              /\ gResult.err = "TemplateRender"
              /\ gResult.name = gRendered[Len(gRendered)]
              /\ DOMAIN gResult = {"kind", "err", "name"}

\* C17 witness: generate succeeded on a definition without any entity.
C17_Witness ==
    /\ gPc = "done" /\ gResult.kind = "Ok"
    /\ gOrb.commands = {} /\ gOrb.jobs = {} /\ gOrb.executors = {}
    /\ Cardinality(DOMAIN gResult.server.files) = 3


(***************************************************************************)
(* Claims about GeneratedServer::write_to and GeneratedServer::format.     *)
(***************************************************************************)

\* The calls of the log that satisfy a condition, by position.
LogIndices == 1..Len(wLog)

FormatterLaunched == \E i \in LogIndices : wLog[i].op = "rustfmt"

\* write_to has returned and nothing has touched the disk since.
WriteToReturnedOk ==
    /\ ~FormatterLaunched
    /\ \/ wPc = "done" /\ wMode = "write_to" /\ wResult.kind = "Ok"
       \/ wPc = "rustfmt"

WriteToReturnedErr ==
    /\ ~FormatterLaunched
    /\ wPc = "done"
    /\ wResult.kind = "Err"

\* Every directory above a path.
DirsAbove(p) == {SubSeq(p, 1, n) : n \in 1..(Len(p) - 1)}

\* The full paths fs::write was called on, successfully or not.
WriteAttempted == {wLog[i].path : i \in {j \in LogIndices : wLog[j].op = "write"}}

WrittenOk ==
    {wLog[i].path : i \in {j \in LogIndices : wLog[j].op = "write" /\ wLog[j].ok}}

SameAsBefore(full) ==
    /\ full \in DOMAIN wDisk.files <=> full \in DOMAIN wDisk0.files
    /\ full \in DOMAIN wDisk.files => wDisk.files[full] = wDisk0.files[full]

\* C18: when write_to returns Ok the target directory, every directory
\* above every file and every file of the set are on disk, each file with
\* its content.  When it returns an error, the error is for the last call
\* made, which is the only call that failed, and carries the path of that
\* call (DirectoryCreate for a directory, FileWrite for a file); every file
\* written before it is on disk with its content, and every file of the set
\* that was not reached is as it was before the call.
C18_WriteToStopsAtFirstFailure ==
    /\ WriteToReturnedOk =>
         /\ wOut \in wDisk.dirs
         /\ DirsAbove(wOut) \subseteq wDisk.dirs
         /\ \A p \in DOMAIN wFiles :
              /\ DirsAbove(wOut \o p) \subseteq wDisk.dirs
              /\ (wOut \o p) \in DOMAIN wDisk.files
              /\ wDisk.files[wOut \o p] = wFiles[p]
    /\ WriteToReturnedErr =>
         /\ wLog # <<>>
         /\ ~wLog[Len(wLog)].ok
         /\ \A i \in 1..(Len(wLog) - 1) : wLog[i].ok
         /\ wResult.path = wLog[Len(wLog)].path
         /\ wResult.err = IF wLog[Len(wLog)].op = "write"
                            THEN "FileWrite" ELSE "DirectoryCreate"
         /\ \A p \in DOMAIN wFiles :
              /\ (wOut \o p) \in WrittenOk =>
                    /\ (wOut \o p) \in DOMAIN wDisk.files
                    /\ wDisk.files[wOut \o p] = wFiles[p]
              /\ (wOut \o p) \notin WriteAttempted => SameAsBefore(wOut \o p)

\* write_to on a nested target failed on a file after it had written another
\* one, with a third file not reached.
C18_Witness ==
    /\ wMode = "write_to"
    /\ wOut = <<"tmp", "out">>
    /\ WriteToReturnedErr
    /\ wResult.err = "FileWrite"
    /\ WrittenOk # {}
    /\ \E p \in DOMAIN wFiles : (wOut \o p) \notin WriteAttempted

\* The file names that end in ".rs".
RustFileNames == {"main.rs", "lib.rs", "tool.rs"}

WritePhaseFailed ==
    \E i \in LogIndices : wLog[i].op \in {"create_dir_all", "write"} /\ ~wLog[i].ok

\* C19: in a call of format, every launch of the formatter comes after a
\* successful write of every file of the set, and is on a path whose file
\* name ends in ".rs", never on Cargo.toml; when a directory creation or a
\* file write of the write phase failed, the formatter is never launched.
C19_FormatWritesThenFormatsRustFiles ==
    wMode = "format" =>
        /\ \A i \in LogIndices :
             wLog[i].op = "rustfmt" =>
                /\ \A p \in DOMAIN wFiles :
                     \E j \in 1..(i - 1) :
                        /\ wLog[j].op = "write"
                        /\ wLog[j].ok
                        /\ wLog[j].path = wOut \o p
                /\ wLog[i].path[Len(wLog[i].path)] \in RustFileNames
                /\ wLog[i].path[Len(wLog[i].path)] # "Cargo.toml"
        /\ WritePhaseFailed => ~FormatterLaunched

\* format launched the formatter on a set that holds the manifest and two
\* source files, and has returned.
C19_Witness ==
    /\ wMode = "format"
    /\ wPc = "done"
    /\ FormatterLaunched
    /\ <<"Cargo.toml">> \in DOMAIN wFiles
    /\ Cardinality(DOMAIN wFiles) = 3

\* C20: format never returns an error because of the formatter: whether
\* rustfmt is absent, exits non-zero or cannot be launched for another
\* reason, the result of format is not the RustfmtFailed error.
C20_FormatterFailureNeverFatal ==
    (wMode = "format" /\ wPc = "done" /\ wResult.kind = "Err")
        => wResult.err # "RustfmtFailed"


(***************************************************************************)
(* Claims about the generate command (checked under SpecCli and            *)
(* SpecTwoRuns).                                                           *)
(***************************************************************************)

VersionResolved(r) == cRun[r].resolved.kind # "none"

\* C21: what resolve_version returned is fixed by whether the manifest
\* existed, the optional version and the force flag: without a manifest the
\* given version, or 0.1.0 when none is given; with a manifest and a
\* version, the version when force is set and the need-force error when it
\* is not; with a manifest and no version the need-version error, with or
\* without force.
C21_ResolveVersionTable ==
    \A r \in Runs :
        VersionResolved(r) =>
            LET m == cRun[r].saw_manifest
                v == cRun[r].version
                f == cRun[r].force
                res == cRun[r].resolved
            IN /\ (~m /\ v.some) => (res.kind = "Ok" /\ res.v = v.v)
               /\ (~m /\ ~v.some) => (res.kind = "Ok" /\ res.v = "0.1.0")
               /\ (m /\ v.some /\ f) => (res.kind = "Ok" /\ res.v = v.v)
               /\ (m /\ v.some /\ ~f) => (res.kind = "Err" /\ res.err = "NeedForce")
               /\ (m /\ ~v.some) => (res.kind = "Err" /\ res.err = "NeedVersion")

\* C21 witness: a run over an existing manifest, with a version and without
\* force, ended with the need-force error.
C21_Witness ==
    \E r \in Runs :
        /\ cRun[r].pc = "done"
        /\ cRun[r].saw_manifest /\ cRun[r].version.some /\ ~cRun[r].force
        /\ cRun[r].result = [kind |-> "Err", err |-> "NeedForce"]


\* C22: the context builder never completes on a parameter whose default
\* serde_json cannot serialize: generate does not get a context for it, it
\* gets a fatal error.
C22_UnserializableDefaultIsFatal ==
    (gParam.default.some /\ ~to_json(gParam.default.v).ok)
        => gOut.kind # "Context"


(***************************************************************************)
(* Claims about ExecutorConfigContext::from_config (checked under          *)
(* SpecConfig).                                                            *)
(***************************************************************************)

\* C23: the flattened config holds the environment pairs of the document
\* in the order the document declares them, and the image string of every
\* container image in order, none when the document declares no images.
C23_FlattenKeepsDeclaredOrder ==
    eOut.kind = "Context" =>
        /\ eOut.environment = eConfig.environment
        /\ Len(eOut.docker_images) = Len(eConfig.docker.images)
        /\ \A i \in DOMAIN eOut.docker_images :
              eOut.docker_images[i] = eConfig.docker.images[i].image


(***************************************************************************)
(* Claims about parsing a serialized definition again (checked under       *)
(* SpecRound).                                                             *)
(***************************************************************************)

HoldsOwnFiles(r) ==
    \A p \in ServerFiles :
        /\ join(cRun[r].output, p) \in DOMAIN cDisk.files
        /\ cDisk.files[join(cRun[r].output, p)] = GeneratedBy(r, p)

\* The three files of a run's target directory were written by one run.
FromOneRun(r) ==
    \E q \in Runs :
        \A p \in ServerFiles :
            /\ join(cRun[r].output, p) \in DOMAIN cDisk.files
            /\ cDisk.files[join(cRun[r].output, p)] = GeneratedBy(q, p)

\* C25: of two runs of generate started together, under every interleaving
\* of their checks and writes, each run that reported success has in its
\* target directory the three files it generated, all from the same run.
C25_ConcurrentRunsIndependent ==
    (\A q \in Runs : cRun[q].pc = "done") =>
        \A r \in Runs :
            cRun[r].result.kind = "Ok" => HoldsOwnFiles(r) /\ FromOneRun(r)

\* The stages of a run before write_to is called.
BeforeWrite == {"parse", "resolve", "new", "generate"}

\* The errors a run ends with before write_to is called.
EarlyErrors ==
    {"Parse", "NeedForce", "NeedVersion", "TemplateRegister", "InvalidOrbName",
     "TemplateRender"}

EndedEarly(r) ==
    /\ cRun[r].pc = "done"
    /\ cRun[r].result.kind = "Err"
    /\ cRun[r].result.err \in EarlyErrors

\* C27: a run of generate has created or changed something under the output
\* directory only after the parse, the version resolution, the validation of
\* the name and the three renders succeeded; a run one of these stopped ended
\* with an error and the file system is as it was.
C27_FirstWriteAfterAllStagesSucceeded ==
    \A r \in Runs :
        /\ cRun[r].touched # {} =>
              /\ cRun[r].pc \notin BeforeWrite
              /\ ~EndedEarly(r)
              /\ cRun[r].resolved.kind = "Ok"
              /\ ValidByRule(cRun[r].name)
              /\ cRun[r].rendered = "ok"
        /\ (cRun[r].pc \in BeforeWrite \/ EndedEarly(r)) =>
              /\ cRun[r].touched = {}
              /\ cDisk = cDisk0

\* C27 witness: a render failed in a run over an output directory that held
\* files, and the run ended with the error.
C27_Witness ==
    /\ cRun["r1"].pc = "done"
    /\ cRun["r1"].result = CliErr("TemplateRender")
    /\ cRun["r1"].rendered = "lib.rs"
    /\ cDisk.files # <<>>

\* C28: a run of generate without the force flag overwrites no file that
\* was in the output directory.
C28_NoOverwriteWithoutForce ==
    \A r \in Runs : ~cRun[r].force => cRun[r].overwrote = {}


(***************************************************************************)
(* Claims about steps that lack a required field (checked under SpecUnion). *)
(***************************************************************************)

\* The fields of the record a recognized key stands for.
RecordOfKey(key) == IF key = "run" THEN RunStepFull ELSE FieldsOfKey(key)

\* The value under a recognized key is a map without one of the fields the
\* record requires.
LacksRequiredField(v) ==
    /\ OneKeyMap(v) /\ v.key \in RecognizedKeySet
    /\ v.payload.k = "map"
    /\ \E i \in 1..Len(RecordOfKey(v.key)) :
          /\ RecordOfKey(v.key)[i].req
          /\ RecordOfKey(v.key)[i].name \notin DOMAIN v.payload.m

\* C26: a one-key map under a recognized step key whose value lacks a field
\* the structured shape requires is not a parse error: the structured shape
\* is tried and rejected, the next shape is tried, and the step is the
\* command invocation catch-all.
C26_MissingRequiredFieldFallsToCatchAll ==
    StepParsed /\ LacksRequiredField(uValue) =>
        /\ uOut.tried = <<"Simple", "Tagged", "CommandInvocation">>
        /\ uOut.variant = "CommandInvocation"

\* C26 witness: {save_cache: {name: ..}}, without key, was parsed.
C26_Witness ==
    /\ StepParsed /\ LacksRequiredField(uValue)
    /\ uValue.key = "save_cache"
    /\ "key" \notin DOMAIN uValue.payload.m
    /\ "name" \in DOMAIN uValue.payload.m
    /\ uOut.variant = "CommandInvocation"

\* C26, the other example: {run: {name: ..}}, without command, was parsed.
C26_RunWithoutCommand ==
    /\ StepParsed /\ LacksRequiredField(uValue)
    /\ uValue.key = "run"
    /\ uOut.variant = "CommandInvocation"


(***************************************************************************)
(* Claims about the identifiers of validated names (checked under SpecGen). *)
(***************************************************************************)

EndsWith(str, suffix) ==
    /\ Len(str) >= Len(suffix)
    /\ SubSeq(str, Len(str) - Len(suffix) + 1, Len(str)) = suffix

\* The lowercase and the uppercase letters an identifier can hold: those of
\* a name and those of the two suffixes.
LowercaseLetters == LowerChars \cup {"m", "c", "p"}
UppercaseLetters == UpperChars \cup {"M"}

\* C29: for every name validate_orb_name accepts, the package identifier is
\* made of lowercase letters, digits and underscores, begins with a letter
\* and ends with "_mcp"; the type identifier has no hyphen, underscore or
\* space, begins with an uppercase letter and ends with "Mcp".
C29_DerivedIdentifiersWellFormed ==
    gPc = "built" /\ validate_orb_name(gName).kind = "Ok" =>
        /\ \A i \in 1..Len(gOut.ctx.crate_name) :
              gOut.ctx.crate_name[i] \in LowercaseLetters \cup DigitChars \cup {"_"}
        /\ gOut.ctx.crate_name[1] \in LowercaseLetters
        /\ EndsWith(gOut.ctx.crate_name, McpSuffix)
        /\ \A i \in 1..Len(gOut.ctx.struct_name) :
              gOut.ctx.struct_name[i] \notin Separators
        /\ gOut.ctx.struct_name[1] \in UppercaseLetters
        /\ EndsWith(gOut.ctx.struct_name, <<"M", "c", "p">>)


(***************************************************************************)
(* Claims about what the multi-file parse leaves alone (checked under      *)
(* Spec).                                                                  *)
(***************************************************************************)

\* The stages of parse_unpacked after the directory of a category.
After(cat) ==
    CASE cat = "commands" -> {"jobs", "executors", "finish"}
      [] cat = "jobs" -> {"executors", "finish"}
      [] cat = "executors" -> {"finish"}

\* The root document was read and parsed by the multi-file parser.
RootParsed ==
    /\ layout = "unpacked" /\ doc.st = "doc"
    /\ pc \in CategorySet \cup {"finish", "done"}

\* C30: in the multi-file parse, from the root document on, the version and
\* the other root metadata are the root document's; a category without a
\* subdirectory has the root document's inline map; and a category whose
\* subdirectory was parsed keeps that directory's map while the later
\* categories are processed.
C30_CategoriesAndMetadataFramed ==
    RootParsed =>
        /\ orb.version = doc.def.version
        /\ orb.meta = doc.def.meta
        /\ \A cat \in CategorySet :
              /\ ~dirs[cat].exists => orb[cat] = doc.def[cat]
              /\ dirs[cat].exists /\ (pc \in After(cat) \/ result.kind = "Ok")
                   => orb[cat] = parse_directory(path, cat, dirs[cat]).items
        /\ result.kind = "Ok" => result.def = orb

\* C30 witness: the commands and executors directories were parsed, there
\* is no jobs directory, and the root document's inline job is in the
\* result beside the commands read from files.
C30_Witness ==
    /\ ParsedUnpacked
    /\ dirs["commands"].exists /\ EntityFiles("commands") # {}
    /\ ~dirs["jobs"].exists /\ doc.def.jobs # EmptyMap
    /\ dirs["executors"].exists
    /\ result.def.jobs = doc.def.jobs
    /\ result.def.commands # doc.def.commands

=============================================================================
